---------------------------- MODULE Spec2Model ----------------------------
(***************************************************************************)
(* A model of jsurl's WebSocket protocol engine: the RFC 6455 frame codec   *)
(* (lib/websocket/frame.js, shipped inside lib/websocket/index.js) and the  *)
(* session of lib/websocket/client.js.                                      *)
(*                                                                          *)
(* A Node Buffer is a sequence of bytes 0..255.  JavaScript offsets are     *)
(* 0-based, TLA+ sequences 1-based: buffer[offset] of the source is         *)
(* buffer[offset + 1] here.                                                 *)
(***************************************************************************)
EXTENDS Integers, Sequences, FiniteSets, TLC

(***************************************************************************)
(* Bounds of the model.                                                     *)
(***************************************************************************)
\* payload lengths 0..MaxSmallLen are all explored, besides the tier boundaries
MaxSmallLen == 3
\* segmentation: every prefix of at most SegHead bytes is fed byte by byte
SegHead == 15
\* raw (not createFrame-built) input buffers have at most MaxRawLen bytes
MaxRawLen == 5

(***************************************************************************)
(* OPCODES, index.js 24-31.                                                 *)
(***************************************************************************)
CONTINUATION == 0
TEXT == 1
BINARY == 2
CLOSE == 8
PING == 9
PONG == 10

\* the largest payload length of the inline tier (index.js 136)
InlineMax == 125
\* the largest payload length of the 16-bit tier (index.js 133)
Short16Max == 65535

(***************************************************************************)
(* Bit operations on bytes, as JavaScript's ^, | and & compute them.        *)
(***************************************************************************)
RECURSIVE BitXor(_, _)
BitXor(a, b) ==
    IF a = 0 THEN b
    ELSE IF b = 0 THEN a
    ELSE (((a % 2) + (b % 2)) % 2) + 2 * BitXor(a \div 2, b \div 2)

RECURSIVE BitOr(_, _)
BitOr(a, b) ==
    IF a = 0 THEN b
    ELSE IF b = 0 THEN a
    ELSE (IF (a % 2) = 1 \/ (b % 2) = 1 THEN 1 ELSE 0) + 2 * BitOr(a \div 2, b \div 2)

\* payload[i] ^ maskingKey[i % 4] for every byte: the whole 256 x 256 table,
\* computed once
XorTable == [a \in 0..255 |-> [b \in 0..255 |-> BitXor(a, b)]]

Min(a, b) == IF a < b THEN a ELSE b

\* buffer.slice(from, to): the bytes at 0-based offsets from .. to-1, with `to`
\* clamped to the buffer's length
Slice(buffer, from, to) ==
    IF Min(to, Len(buffer)) <= from THEN << >>
    ELSE SubSeq(buffer, from + 1, Min(to, Len(buffer)))

\* the big-endian bytes of n in `width` bytes (writeUInt16BE, writeBigUInt64BE)
RECURSIVE BigEndian(_, _)
BigEndian(n, width) ==
    IF width = 0 THEN << >>
    ELSE Append(BigEndian(n \div 256, width - 1), (n % 256))

\* buffer.readUInt16BE(offset)
readUInt16BE(buffer, offset) == buffer[offset + 1] * 256 + buffer[offset + 2]

\* A length no buffer of this model reaches: 2^24.
TooLong == 16777216

\* Number(buffer.readBigUInt64BE(offset)).  A value with one of its five high
\* bytes set is at least 2^24; parseFrame only compares it with buffer.length,
\* so every such value is kept as TooLong.
readBigUInt64BE(buffer, offset) ==
    IF \E i \in 1..5 : buffer[offset + i] # 0
    THEN TooLong
    ELSE buffer[offset + 6] * 65536 + buffer[offset + 7] * 256 + buffer[offset + 8]

\* the XOR of data with key[i mod 4], byte by byte (index.js 172-174, 241-243)
ApplyMask(data, key) ==
    [i \in 1..Len(data) |-> XorTable[data[i]][key[((i - 1) % 4) + 1]]]

(***************************************************************************)
(* createFrame(data, opcode, mask), index.js 125-180.  The four bytes of    *)
(* crypto.randomBytes(4) are the parameter maskingKey.                      *)
(***************************************************************************)
\* a tier choice that leaves the inline tier one length early
LengthTier_NotMinimal(payloadLength) ==
    IF payloadLength > Short16Max THEN 127
    ELSE IF payloadLength >= InlineMax THEN 126
    ELSE payloadLength

\* extendedPayloadLength, index.js 133-141
LengthTier(payloadLength) ==
    IF payloadLength > Short16Max THEN 127
    ELSE IF payloadLength > InlineMax THEN 126
    ELSE payloadLength

\* a createFrame that sets the mask bit and writes the key, and copies the
\* payload as it is
createFrame_PayloadNotMasked(payload, opcode, mask, maskingKey) ==
    LET payloadLength == Len(payload)
        extendedPayloadLength == LengthTier(payloadLength)
        byte1 == BitOr(128, opcode) % 256
        byte2 == BitOr(IF mask THEN 128 ELSE 0, extendedPayloadLength) % 256
        extended ==
            IF extendedPayloadLength = 126 THEN BigEndian(payloadLength, 2)
            ELSE IF extendedPayloadLength = 127 THEN BigEndian(payloadLength, 8)
            ELSE << >>
    IN  IF mask
        THEN <<byte1, byte2>> \o extended \o maskingKey \o payload
        ELSE <<byte1, byte2>> \o extended \o payload

createFrame(payload, opcode, mask, maskingKey) ==
    LET payloadLength == Len(payload)
        extendedPayloadLength == LengthTier(payloadLength)
        byte1 == BitOr(128, opcode) % 256
        byte2 == BitOr(IF mask THEN 128 ELSE 0, extendedPayloadLength) % 256
        extended ==
            IF extendedPayloadLength = 126 THEN BigEndian(payloadLength, 2)
            ELSE IF extendedPayloadLength = 127 THEN BigEndian(payloadLength, 8)
            ELSE << >>
    IN  IF mask
        THEN <<byte1, byte2>> \o extended \o maskingKey \o ApplyMask(payload, maskingKey)
        ELSE <<byte1, byte2>> \o extended \o payload

(***************************************************************************)
(* parseFrame(buffer), index.js 196-253.  The result carries, besides the   *)
(* fields the source returns, `buffer`: the bytes of the caller's buffer    *)
(* after the call.  payload is buffer.slice(...), a view that shares the    *)
(* buffer's memory, so `payload[i] ^= maskingKey[i % 4]` (242) rewrites the *)
(* payload bytes of the caller's buffer in place.                           *)
(***************************************************************************)
Incomplete(buffer) ==
    [complete |-> FALSE, fin |-> FALSE, opcode |-> 0, payload |-> << >>,
     frameLength |-> 0, buffer |-> buffer]

\* a return statement that reports the whole buffer as consumed
CompleteFrame_WholeBuffer(buffer, fin, opcode, offset, payload) ==
    [complete |-> TRUE, fin |-> fin, opcode |-> opcode, payload |-> payload,
     frameLength |-> Len(buffer),
     buffer |-> Slice(buffer, 0, offset) \o payload
                \o Slice(buffer, offset + Len(payload), Len(buffer))]

\* the return statement of parseFrame (246-252), with the buffer as line 242
\* leaves it
CompleteFrame(buffer, fin, opcode, offset, payload) ==
    [complete |-> TRUE, fin |-> fin, opcode |-> opcode, payload |-> payload,
     frameLength |-> offset + Len(payload),
     buffer |-> Slice(buffer, 0, offset) \o payload
                \o Slice(buffer, offset + Len(payload), Len(buffer))]

\* a payload check that lets the last payload byte be missing
PayloadMissing_OffByOne(buffer, offset, payloadLength) ==
    Len(buffer) + 1 < offset + payloadLength

\* index.js 233: fewer bytes than the payload needs
PayloadMissing(buffer, offset, payloadLength) ==
    Len(buffer) < offset + payloadLength

parseFrame(buffer) ==
    IF Len(buffer) < 2 THEN Incomplete(buffer)
    ELSE
    LET byte1 == buffer[1]
        fin == (byte1 \div 128) % 2 = 1
        opcode == byte1 % 16
        byte2 == buffer[2]
        masked == (byte2 \div 128) % 2 = 1
        length7 == byte2 % 128
        extBytes == IF length7 = 126 THEN 2 ELSE IF length7 = 127 THEN 8 ELSE 0
    IN  IF Len(buffer) < 2 + extBytes THEN Incomplete(buffer)
        ELSE
        LET payloadLength ==
                IF length7 = 126 THEN readUInt16BE(buffer, 2)
                ELSE IF length7 = 127 THEN readBigUInt64BE(buffer, 2)
                ELSE length7
            keyOffset == 2 + extBytes
        IN  IF masked /\ Len(buffer) < keyOffset + 4 THEN Incomplete(buffer)
            ELSE
            LET offset == keyOffset + (IF masked THEN 4 ELSE 0)
            IN  IF PayloadMissing(buffer, offset, payloadLength) THEN Incomplete(buffer)
                ELSE
                LET maskingKey == Slice(buffer, keyOffset, keyOffset + 4)
                    raw == Slice(buffer, offset, offset + payloadLength)
                IN  CompleteFrame(buffer, fin, opcode, offset,
                        IF masked THEN ApplyMask(raw, maskingKey) ELSE raw)

(***************************************************************************)
(* The codec under test: inputs are drawn in Init, the actions apply        *)
(* createFrame and parseFrame as a caller does.                             *)
(***************************************************************************)
VARIABLES
    input,      \* the arguments of createFrame, and the bytes that follow the frame
    frame,      \* what createFrame returned
    buf,        \* the caller's buffer handed to parseFrame (a Node Buffer: mutable)
    results,    \* what the successive parseFrame(buf) calls returned
    rx,         \* a receiver's accumulation buffer, fed with the frame in segments
    segRes,     \* what parseFrame returned on rx after the last segment
    segStarted, \* whether the receiver has been started
    cpc         \* where the caller is

codecVars == <<input, frame, buf, results, rx, segRes, segStarted, cpc>>

\* The state of one WebSocketClient, its socket and its peer.
VARIABLES
    proxy,              \* this.proxy is set
    phase,              \* where connect() is
    sockState,          \* the socket: "none", "connecting", "open", "destroyed"
    thisSocket,         \* this.socket is set
    connectTo,          \* where the TCP connection goes: "proxy" or "target"
    writeEnded,         \* socket.end() was called
    listeners,          \* the 'data' listeners attached to the socket
    tunnelTimer,        \* the timer of _establishProxyTunnel
    handshakeTimer,     \* the timer of _performHandshake
    tunnelEstablished,  \* the flag of _establishProxyTunnel
    handshakeComplete,  \* the flag of _performHandshake
    tunnelResponse,     \* what _establishProxyTunnel has accumulated
    handshakeResponse,  \* what _performHandshake has accumulated
    key,                \* the Sec-WebSocket-Key of the handshake request
    buffer,             \* this.buffer
    connected,          \* this.connected
    log,                \* socket writes, emitted events and steps of connect(), in order
    connectError,       \* what connect() rejected with
    wire,               \* what the peer has sent and the socket has not delivered yet
    peer,               \* what the peer sends next, and the frames it has sent
    calls               \* how many times the owner has called close(), send() or ping()

sessionVars ==
    <<proxy, phase, sockState, thisSocket, connectTo, writeEnded, listeners,
      tunnelTimer, handshakeTimer, tunnelEstablished, handshakeComplete,
      tunnelResponse, handshakeResponse, key, buffer, connected, log,
      connectError, wire, peer, calls>>

(***************************************************************************)
(* The state of the transport (src/lib/transport/tcp.js): one socket, the   *)
(* promise of the call in progress, and time in ticks.                     *)
(***************************************************************************)
VARIABLES
    stage,              \* the call in progress: "none", "createConnection", "sendAndReceive",
                        \* "createPersistentConnection"
    netSocket,          \* the net.Socket: "none", "connecting", "open", "closed", "destroyed"
    socketTimeout,      \* the idle timeout set with socket.setTimeout, 0 when off
    idle,               \* ticks since the last activity on the socket
    elapsed,            \* ticks since the call in progress started
    responseBytes,      \* response of sendAndReceive: the bytes accumulated
    chunks,             \* the chunks the socket has delivered since the call, in order
    promise,            \* the promise of the call in progress
    happened            \* what has happened to the socket: "peer close", "error", "timeout"

transportVars ==
    <<stage, netSocket, socketTimeout, idle, elapsed, responseBytes, chunks, promise, happened>>

(***************************************************************************)
(* The state of one HTTP exchange (src/lib/http): sendRequest builds the    *)
(* request and opens the connection; parseResponse reads the raw response.  *)
(* A JavaScript string is a sequence of one-character strings.              *)
(***************************************************************************)
VARIABLES
    requestObj,         \* the request object given to sendRequest
    requestBytes,       \* what buildRequest returned, or that it threw
    connectTarget,      \* the host and port given to createConnection
    rawResponse,        \* the raw response given to parseResponse
    parsedResponse,     \* what parseResponse returned
    statusClasses,      \* what isSuccess, isRedirect, isClientError, isServerError returned
    hpc                 \* where the exchange is

httpVars ==
    <<requestObj, requestBytes, connectTarget, rawResponse, parsedResponse, statusClasses, hpc>>

vars == <<codecVars, sessionVars, transportVars, httpVars>>

\* the opcodes the callers of createFrame pass (client.js 260, 313, 340, 361)
SendOpcodes == {TEXT, BINARY, PING, PONG, CLOSE}

\* outcomes of crypto.randomBytes(4)
MaskKeys == {<<18, 52, 86, 120>>, <<255, 129, 126, 1>>}

NoKey == <<0, 0, 0, 0>>

\* payload lengths: the small ones and both sides of each tier boundary
Lengths == (0..MaxSmallLen) \cup {InlineMax, InlineMax + 1, Short16Max, Short16Max + 1}

\* a payload of length n whose bytes run through the byte values from `first`
PayloadOf(n, first) == [i \in 1..n |-> (first + i) % 256]

\* what may follow the frame in the caller's buffer: nothing, or the next frame
Trails == {<< >>, <<129, 1, 65>>}

\* the inputs of createFrame.  Payloads up to the 16-bit tier's first length go
\* with every opcode, both keys and both trails; the two lengths around the
\* 64-bit tier's boundary go with the opcode BINARY and one key.
IsLarge(n) == n > InlineMax + 1

InputsOfLength(n) ==
    { [kind |-> "frame", payload |-> PayloadOf(n, f), opcode |-> op,
       mask |-> mk[1], key |-> mk[2], trail |-> t] :
        f \in (IF n <= MaxSmallLen THEN {0, 254} ELSE {64}),
        op \in (IF IsLarge(n) THEN {BINARY} ELSE SendOpcodes),
        mk \in {<<FALSE, NoKey>>} \cup
               {<<TRUE, k>> : k \in (IF IsLarge(n) THEN {<<18, 52, 86, 120>>} ELSE MaskKeys)},
        t \in (IF IsLarge(n) THEN {<< >>} ELSE Trails) }

FrameInputs == UNION {InputsOfLength(n) : n \in Lengths}

\* buffers that no createFrame built: every sequence of at most MaxRawLen bytes
\* over byte values that are headers, length markers and data (FIN and no FIN,
\* opcodes 0, 1 and 14, masked and unmasked, the 16-bit marker with any length)
RawBytes == {0, 1, 126, 128, 129}

RawInputs ==
    { [kind |-> "raw", payload |-> << >>, opcode |-> 0, mask |-> FALSE,
       key |-> NoKey, trail |-> b] :
        b \in UNION {[1..k -> RawBytes] : k \in 0..MaxRawLen} }

NoResult == Incomplete(<< >>)

NoError == [name |-> "none", code |-> ""]

\* new WebSocketClient(options): no socket, not connected, an empty buffer.
\* The peer answers a client that has a proxy with the proxy's response first.
Constructed ==
    /\ phase = "new"
    /\ sockState = "none"
    /\ thisSocket = FALSE
    /\ connectTo = "none"
    /\ writeEnded = FALSE
    /\ listeners = {}
    /\ tunnelTimer = "unset"
    /\ handshakeTimer = "unset"
    /\ tunnelEstablished = FALSE
    /\ handshakeComplete = FALSE
    /\ tunnelResponse = << >>
    /\ handshakeResponse = << >>
    /\ key = ""
    /\ buffer = << >>
    /\ connected = FALSE
    /\ log = << >>
    /\ connectError = NoError
    /\ wire = << >>
    /\ peer = [next |-> IF proxy THEN "tunnel" ELSE "handshake", frames |-> 0,
               stream |-> << >>]
    /\ calls = 0

SessionNew ==
    /\ proxy = FALSE
    /\ Constructed

\* new Promise((resolve, reject) => ...), tcp.js 22, 57, 102
PendingPromise == [state |-> "pending", value |-> << >>, error |-> NoError]

\* no request has been made and no response received
NoRequest == [kind |-> "none"]

HttpNew ==
    /\ requestObj = NoRequest
    /\ requestBytes = << >>
    /\ connectTarget = [host |-> << >>, port |-> 0]
    /\ rawResponse = << >>
    /\ parsedResponse = [valid |-> FALSE]
    /\ statusClasses = << >>
    /\ hpc = "none"

\* no call of the transport has been made
TransportNew ==
    /\ stage = "none"
    /\ netSocket = "none"
    /\ socketTimeout = 0
    /\ idle = 0
    /\ elapsed = 0
    /\ responseBytes = << >>
    /\ chunks = << >>
    /\ promise = PendingPromise
    /\ happened = {}

\* either createFrame is about to be called, or the caller's buffer already
\* holds bytes received from elsewhere
InitCodec ==
    /\ \/ /\ input \in FrameInputs
          /\ buf = << >>
          /\ cpc = "new"
       \/ /\ input \in RawInputs
          /\ buf = input.trail
          /\ cpc = "encoded"
    /\ frame = << >>
    /\ results = << >>
    /\ rx = << >>
    /\ segRes = NoResult
    /\ segStarted = FALSE
    /\ SessionNew
    /\ TransportNew
    /\ HttpNew

\* frame = createFrame(payload, opcode, mask); the caller's buffer holds the frame
\* followed by what else was received
Encode ==
    /\ cpc = "new"
    /\ frame' = createFrame(input.payload, input.opcode, input.mask, input.key)
    /\ buf' = frame' \o input.trail
    /\ cpc' = "encoded"
    /\ UNCHANGED <<input, results, rx, segRes, segStarted>>
    /\ UNCHANGED <<sessionVars, transportVars, httpVars>>

\* the caller keeps the result; its buffer is as parseFrame left it
KeepResult(r) ==
    /\ results' = Append(results, [r EXCEPT !.buffer = << >>])
    /\ buf' = r.buffer

\* result = parseFrame(buf), at most twice on the same buffer
ParseCall ==
    /\ cpc \in {"encoded", "parsed"}
    /\ ~segStarted
    /\ Len(results) < 2
    /\ KeepResult(parseFrame(buf))
    /\ cpc' = "parsed"
    /\ UNCHANGED <<input, frame, rx, segRes, segStarted>>
    /\ UNCHANGED <<sessionVars, transportVars, httpVars>>

\* the sizes of the next segment: byte by byte within the first SegHead bytes,
\* and everything but the last byte, or everything, of what is left
SegmentSizes(have, total) ==
    {n \in {1, total - have - 1, total - have} :
        /\ n >= 1
        /\ have + n <= total
        /\ (n = 1 => have < SegHead \/ have + 1 >= total - 1)}

KeepSegment(r) ==
    /\ rx' = r.buffer
    /\ segRes' = [r EXCEPT !.buffer = << >>]

\* the receiver starts with an empty buffer and tries to parse it
SegmentStart ==
    /\ input.kind = "frame"
    /\ cpc = "parsed"
    /\ Len(results) = 1
    /\ ~segStarted
    /\ segStarted' = TRUE
    /\ KeepSegment(parseFrame(<< >>))
    /\ UNCHANGED <<input, frame, buf, results, cpc>>
    /\ UNCHANGED <<sessionVars, transportVars, httpVars>>

\* a socket read delivers the next n bytes of the frame: the receiver appends
\* them to its buffer (Buffer.concat: a new buffer) and calls parseFrame
SegmentRead ==
    /\ segStarted
    /\ Len(rx) < Len(frame)
    /\ \E n \in SegmentSizes(Len(rx), Len(frame)) :
        KeepSegment(parseFrame(rx \o Slice(frame, Len(rx), Len(rx) + n)))
    /\ UNCHANGED <<input, frame, buf, results, segStarted, cpc>>
    /\ UNCHANGED <<sessionVars, transportVars, httpVars>>

NextCodec == Encode \/ ParseCall \/ SegmentStart \/ SegmentRead

SpecCodec == InitCodec /\ [][NextCodec]_vars

(***************************************************************************)
(* Properties of the codec, checked under SpecCodec.                        *)
(***************************************************************************)
\* the buffer the first parseFrame call was given
GivenBuffer == IF input.kind = "frame" THEN frame \o input.trail ELSE input.trail

\* the header bytes of the frame at the front of buffer b (Len(b) >= 2)
ExtendedBytes(b) == IF b[2] % 128 = 126 THEN 2 ELSE IF b[2] % 128 = 127 THEN 8 ELSE 0
KeyBytes(b) == IF b[2] >= 128 THEN 4 ELSE 0
HeaderBytes(b) == 2 + ExtendedBytes(b) + KeyBytes(b)

\* C1: parseFrame(createFrame(payload, opcode, mask)) is complete and returns
\* the payload and the opcode that were given, fin = true, and frameLength =
\* the length of the encoded frame; for payload lengths 0..MaxSmallLen, 125,
\* 126, 65535 and 65536, masked and unmasked.
C1_FrameRoundTrip ==
    (input.kind = "frame" /\ Len(results) >= 1) =>
        /\ results[1].complete
        /\ results[1].payload = input.payload
        /\ results[1].opcode = input.opcode
        /\ results[1].fin
        /\ results[1].frameLength = Len(frame)

C1_Witness ==
    /\ input.kind = "frame"
    /\ Len(results) >= 1
    /\ input.mask
    /\ Len(input.payload) = InlineMax + 1
    /\ results[1].complete
    /\ results[1].payload = input.payload

\* C2: on every proper prefix of an encoded frame parseFrame reports
\* incomplete and leaves the receiver's buffer as it was; once the segments
\* have brought the whole frame, the decoded frame is the one the single call
\* on the whole buffer returned.
C2_SegmentationTolerance ==
    segStarted =>
        /\ Len(rx) < Len(frame) =>
              /\ ~segRes.complete
              /\ rx = Slice(frame, 0, Len(rx))
        /\ Len(rx) = Len(frame) => segRes = results[1]

C2_Witness ==
    /\ segStarted
    /\ Len(rx) = Len(frame)
    /\ segRes.complete
    /\ input.mask
    /\ Len(input.payload) = InlineMax + 1

\* C3: two parseFrame calls in a row on the same buffer return the same
\* result, and the buffer's bytes are after a call what they were before it.
C3_ParseIdempotent ==
    /\ Len(results) >= 1 => buf = GivenBuffer
    /\ Len(results) = 2 => results[2] = results[1]

\* C4: a complete result on buffer B has frameLength = 2 + extended-length
\* bytes + masking-key bytes + payload length, frameLength <= Len(B), and its
\* payload is made of the bytes of B before index frameLength alone (unmasked
\* with the key in B when the mask bit is set).  Stated of the first call, in
\* the states before the caller goes on to anything else.
C4_ConsumesOneFrame ==
    (Len(results) >= 1 /\ ~segStarted /\ results[1].complete) =>
        LET B == GivenBuffer
            r == results[1]
            offset == HeaderBytes(B)
        IN  /\ r.frameLength = offset + Len(r.payload)
            /\ r.frameLength <= Len(B)
            /\ \A i \in 1..Len(r.payload) :
                  r.payload[i] =
                      IF KeyBytes(B) = 4
                      THEN XorTable[B[offset + i]][B[offset - 4 + ((i - 1) % 4) + 1]]
                      ELSE B[offset + i]

C4_Witness ==
    /\ Len(results) >= 1
    /\ ~segStarted
    /\ results[1].complete
    /\ input.kind = "frame"
    /\ input.mask
    /\ Len(input.payload) = InlineMax
    /\ input.trail # << >>

\* the value of the bytes of b at 1-based positions from .. to, big-endian
RECURSIVE BigEndianValue(_, _, _)
BigEndianValue(b, from, to) ==
    IF to < from THEN 0 ELSE BigEndianValue(b, from, to - 1) * 256 + b[to]

\* C29: the frame createFrame builds for a payload of length L has the length
\* field L when L <= 125, 126 and L in 16 bits when 126 <= L <= 65535, 127 and
\* L in 64 bits when L >= 65536; the mask bit and the key are there exactly
\* when mask is true; the frame has 2 + (0, 2 or 8) + (4 if masked) + L bytes.
C29_MinimalLengthTier ==
    (input.kind = "frame" /\ cpc # "new") =>
        LET L == Len(input.payload)
            ext == IF L <= InlineMax THEN 0 ELSE IF L <= Short16Max THEN 2 ELSE 8
        IN  /\ Len(frame) = 2 + ext + (IF input.mask THEN 4 ELSE 0) + L
            /\ frame[2] % 128 = (IF L <= InlineMax THEN L
                                 ELSE IF L <= Short16Max THEN 126 ELSE 127)
            /\ ext > 0 => BigEndianValue(frame, 3, 2 + ext) = L
            /\ (frame[2] >= 128) <=> input.mask
            /\ input.mask => SubSeq(frame, 2 + ext + 1, 2 + ext + 4) = input.key

\* a masked frame of the first length of the 16-bit tier was built
C29_Witness ==
    /\ input.kind = "frame"
    /\ cpc = "encoded"
    /\ input.mask
    /\ Len(input.payload) = InlineMax + 1
    /\ frame[2] = 254

(***************************************************************************)
(* HTTP text on the socket.  What the socket carries is a sequence of       *)
(* tokens: a byte 0..255, the line terminator "\r\n" (CRLF), or one line of *)
(* HTTP text, listed in Texts.  Of a line of text the model keeps what the  *)
(* source looks at: the status codes it contains (String.includes), and its *)
(* parts between colons (String.split(':')), each a sequence of characters  *)
(* of which " " is white space.  A line without a colon is one part.        *)
(***************************************************************************)
CRLF == 256

Texts ==
    << \* HTTP/1.1 200 Connection established
       [codes |-> {"200"}, parts |-> << <<"HTTP/1.1 200 Connection established">> >>],
       \* HTTP/1.1 407 Proxy Authentication Required
       [codes |-> {"407"}, parts |-> << <<"HTTP/1.1 407 Proxy Authentication Required">> >>],
       \* HTTP/1.1 101 Switching Protocols
       [codes |-> {"101"}, parts |-> << <<"HTTP/1.1 101 Switching Protocols">> >>],
       \* HTTP/1.1 400 Bad Request
       [codes |-> {"400"}, parts |-> << <<"HTTP/1.1 400 Bad Request">> >>],
       \* Sec-WebSocket-Accept: A1
       [codes |-> {}, parts |-> << <<"Sec-WebSocket-Accept">>, <<" ", "A1">> >>],
       \* sec-websocket-accept: A2
       [codes |-> {}, parts |-> << <<"sec-websocket-accept">>, <<" ", "A2">> >>],
       \* Sec-WebSocket-Accept: a1      (A1 in another letter case)
       [codes |-> {}, parts |-> << <<"Sec-WebSocket-Accept">>, <<" ", "a1">> >>],
       \* Sec-WebSocket-Accept: A1:x
       [codes |-> {}, parts |-> << <<"Sec-WebSocket-Accept">>, <<" ", "A1">>, <<"x">> >>],
       \* Upgrade: websocket
       [codes |-> {}, parts |-> << <<"Upgrade">>, <<" ", "websocket">> >>] >>

Status200 == CRLF + 1
Status407 == CRLF + 2
Status101 == CRLF + 3
Status400 == CRLF + 4
AcceptA1 == CRLF + 5
AcceptA2 == CRLF + 6
AcceptLowerA1 == CRLF + 7
AcceptA1Colon == CRLF + 8
UpgradeHeader == CRLF + 9

IsText(token) == token > CRLF

TextOf(token) == Texts[token - CRLF]

\* String.toLowerCase on the header names of Texts
toLowerCase(name) ==
    CASE name = "Sec-WebSocket-Accept" -> "sec-websocket-accept"
      [] name = "Upgrade" -> "upgrade"
      [] OTHER -> name

\* String.trim: white space off both ends
RECURSIVE trim(_)
trim(s) ==
    IF Len(s) = 0 THEN s
    ELSE IF s[1] = " " THEN trim(Tail(s))
    ELSE IF s[Len(s)] = " " THEN trim(SubSeq(s, 1, Len(s) - 1))
    ELSE s

\* response.toString().split('\r\n'): the lines of a response
RECURSIVE SplitLines(_)
SplitLines(response) ==
    IF \A i \in 1..Len(response) : response[i] # CRLF
    THEN <<response>>
    ELSE LET i == CHOOSE i \in 1..Len(response) :
                      /\ response[i] = CRLF
                      /\ \A j \in 1..(i - 1) : response[j] # CRLF
         IN  <<SubSeq(response, 1, i - 1)>> \o SplitLines(SubSeq(response, i + 1, Len(response)))

\* the number of tokens of "\r\n\r\n" (its four bytes in `headerEnd + 4`)
HeaderEndLen == 2

\* response.indexOf('\r\n\r\n'), as an offset in tokens; -1 when absent
HeaderEnd(response) ==
    LET at == {i \in 1..(Len(response) - 1) : response[i] = CRLF /\ response[i + 1] = CRLF}
    IN  IF at = {} THEN -1
        ELSE (CHOOSE i \in at : \A j \in at : i <= j) - 1

\* statusLine.includes(code)
Includes(line, code) ==
    \E i \in 1..Len(line) : IsText(line[i]) /\ code \in TextOf(line[i]).codes

\* line.split(':'); the lines of the model hold at most one text
SplitColon(line) ==
    IF Len(line) > 0 /\ IsText(line[1]) THEN TextOf(line[1]).parts ELSE <<line>>

\* line.toLowerCase().startsWith('sec-websocket-accept:')
StartsWithAccept(line) ==
    /\ Len(SplitColon(line)) > 1
    /\ SplitColon(line)[1] = <<SplitColon(line)[1][1]>>
    /\ toLowerCase(SplitColon(line)[1][1]) = "sec-websocket-accept"

(***************************************************************************)
(* The handshake functions of index.js.                                     *)
(***************************************************************************)
\* generateWebSocketKey (37-39): outcomes of crypto.randomBytes(16), in base64
WebSocketKeys == {"K1", "K2"}

\* calculateAcceptKey (46-52): base64(sha1(key + GUID)), kept as the one value
\* that belongs to the key
calculateAcceptKey(k) == IF k = "K1" THEN <<"A1">> ELSE <<"A2">>

\* the first line that starts with the header's name (105-110)
AcceptLine(lines) ==
    LET at == {i \in 1..Len(lines) : StartsWithAccept(lines[i])}
    IN  IF at = {} THEN 0 ELSE CHOOSE i \in at : \A j \in at : i <= j

\* index.js 98: the status line includes '101'
StatusOk(statusLine) == Includes(statusLine, "101")

\* validateHandshakeResponse(response, expectedAcceptKey), index.js 93-116
validateHandshakeResponse(response, expectedAcceptKey) ==
    LET lines == SplitLines(response)
        statusLine == lines[1]
        acceptKey ==
            IF AcceptLine(lines) = 0 THEN << >>
            ELSE trim(SplitColon(lines[AcceptLine(lines)])[2])
    IN  IF ~StatusOk(statusLine)
        THEN [valid |-> FALSE, error |-> "Invalid status"]
        ELSE IF acceptKey # expectedAcceptKey
        THEN [valid |-> FALSE, error |-> "Invalid accept key"]
        ELSE [valid |-> TRUE, error |-> ""]

(***************************************************************************)
(* Errors (utils/errors.js).                                                *)
(***************************************************************************)
ConnectionError(code) == [name |-> "ConnectionError", code |-> code]

TimeoutError == [name |-> "TimeoutError", code |-> "TIMEOUT_ERROR"]

(***************************************************************************)
(* The session's log: what it wrote to the socket, the events it emitted    *)
(* and the steps connect() took, in the order they happened.                *)
(***************************************************************************)
Write(what, data, ended) ==
    [t |-> IF ended THEN "write after end" ELSE "write", what |-> what, data |-> data,
     type |-> "buffer"]

Emit(what, data, type) == [t |-> "emit", what |-> what, data |-> data, type |-> type]

Step(what) == [t |-> "step", what |-> what, data |-> << >>, type |-> "none"]

\* the character U+FFFD
Replacement == 65533

\* payload.toString('utf-8'): the characters of the bytes.  A byte below 128 is
\* its character, two bytes 110xxxxx 10xxxxxx (from 0xC2) are one character,
\* and a byte that starts no sequence is U+FFFD.  Longer sequences are not in
\* the model's payloads.
RECURSIVE Utf8(_)
Utf8(bytes) ==
    IF Len(bytes) = 0 THEN << >>
    ELSE IF bytes[1] < 128 THEN <<bytes[1]>> \o Utf8(Tail(bytes))
    ELSE IF /\ bytes[1] \in 194..223
            /\ Len(bytes) > 1
            /\ bytes[2] \in 128..191
    THEN <<(bytes[1] - 192) * 64 + (bytes[2] - 128)>> \o Utf8(Tail(Tail(bytes)))
    ELSE <<Replacement>> \o Utf8(Tail(bytes))

(***************************************************************************)
(* The methods of WebSocketClient that run inside a handler.  They work on  *)
(* s, the fields a handler changes: this.buffer, this.connected, the log    *)
(* and whether socket.end() was called.  The socket itself (thisSocket,     *)
(* sockState) does not change while a handler runs.                         *)
(***************************************************************************)
Self == [buffer |-> buffer, connected |-> connected, log |-> log, writeEnded |-> writeEnded]

\* a _sendFrame that builds its frame without a mask
_sendFrame_Unmasked(s, data, opcode, maskingKey) ==
    IF ~thisSocket \/ sockState = "destroyed" THEN s
    ELSE [s EXCEPT !.log = Append(@, Write("frame", createFrame(data, opcode, FALSE, maskingKey),
                                           s.writeEnded))]

\* _sendFrame(data, opcode), client.js 323-329
_sendFrame(s, data, opcode, maskingKey) ==
    IF ~thisSocket \/ sockState = "destroyed" THEN s
    ELSE [s EXCEPT !.log = Append(@, Write("frame", createFrame(data, opcode, TRUE, maskingKey),
                                           s.writeEnded))]

\* the default close code of close(), client.js 348
NormalClosure == 1000

\* socket.end(), client.js 365
End(s) == [s EXCEPT !.writeEnded = TRUE, !.log = Append(@, Step("socket.end()"))]

\* a close() that leaves this.connected as it is
close_StaysConnected(s, maskingKey) ==
    IF ~thisSocket THEN s
    ELSE LET sent == IF s.connected /\ sockState # "destroyed"
                     THEN _sendFrame(s, BigEndian(NormalClosure, 2), CLOSE, maskingKey)
                     ELSE s
         IN  IF sockState # "destroyed" THEN End(sent) ELSE sent

\* close(code = 1000, reason = ''), client.js 348-370
close(s, maskingKey) ==
    IF ~thisSocket THEN s
    ELSE LET sent == IF s.connected /\ sockState # "destroyed"
                     THEN _sendFrame(s, BigEndian(NormalClosure, 2), CLOSE, maskingKey)
                     ELSE s
             ended == IF sockState # "destroyed" THEN End(sent) ELSE sent
         IN  [ended EXCEPT !.connected = FALSE]

\* a PONG that echoes nothing
AutoPong_Empty(s, payload, maskingKey) == _sendFrame(s, << >>, PONG, maskingKey)

\* client.js 260: this._sendFrame(frame.payload, OPCODES.PONG)
AutoPong(s, payload, maskingKey) == _sendFrame(s, payload, PONG, maskingKey)

\* the switch of _onData, client.js 249-272
Dispatch(s, parsed, maskingKey) ==
    CASE parsed.opcode = TEXT ->
            [s EXCEPT !.log = Append(@, Emit("message", Utf8(parsed.payload), "string"))]
      [] parsed.opcode = BINARY ->
            [s EXCEPT !.log = Append(@, Emit("message", parsed.payload, "buffer"))]
      [] parsed.opcode = PING ->
            LET sent == AutoPong(s, parsed.payload, maskingKey)
            IN  [sent EXCEPT !.log = Append(@, Emit("ping", parsed.payload, "buffer"))]
      [] parsed.opcode = PONG ->
            [s EXCEPT !.log = Append(@, Emit("pong", parsed.payload, "buffer"))]
      [] parsed.opcode = CLOSE ->
            close([s EXCEPT !.log = Append(@, Emit("close", parsed.payload, "buffer"))],
                  maskingKey)
      [] OTHER -> s

\* the loop of _onData, client.js 238-273: parse a frame, take it off the
\* buffer, dispatch it, until the buffer is empty or holds no complete frame
RECURSIVE FrameLoop(_, _)
FrameStep(s, parsed, maskingKey) ==
    IF ~parsed.complete THEN s
    ELSE FrameLoop(Dispatch([s EXCEPT !.buffer = Slice(parsed.buffer, parsed.frameLength,
                                                      Len(parsed.buffer))],
                            parsed, maskingKey),
                   maskingKey)

FrameLoop(s, maskingKey) ==
    IF Len(s.buffer) = 0 THEN s ELSE FrameStep(s, parseFrame(s.buffer), maskingKey)

\* an _onData that replaces the buffer with the data read
_onData_DropsBuffered(s, data, maskingKey) ==
    FrameLoop([s EXCEPT !.buffer = data], maskingKey)

\* _onData(data), client.js 234-274.  Every frame the handler writes while it
\* runs is masked with maskingKey.
_onData(s, data, maskingKey) ==
    FrameLoop([s EXCEPT !.buffer = @ \o data], maskingKey)

\* the handler's fields go back to the session
Keep(s) ==
    /\ buffer' = s.buffer
    /\ connected' = s.connected
    /\ log' = s.log
    /\ writeEnded' = s.writeEnded

(***************************************************************************)
(* The session: connect() of client.js with createPersistentConnection of   *)
(* tcp.js, the socket and the peer.  connect() is an async function: when   *)
(* the promise it awaits is resolved by a handler, its continuation runs    *)
(* as a microtask, before any other socket event or timer.  The phases      *)
(* "tcp resolved", "tunnel resolved" and "handshake resolved" are the       *)
(* moments between a handler and that continuation; no other action is      *)
(* enabled in them.                                                         *)
(***************************************************************************)
\* bounds: the frames the peer sends after its handshake response
MaxFrames == 2

Pending == phase \in {"tcp resolved", "tunnel resolved", "handshake resolved"}

\* what the peer may send as a frame: index.js-built, unmasked
ServerFrames ==
    { createFrame(<<65>>, TEXT, FALSE, NoKey),
      createFrame(<< >>, PING, FALSE, NoKey),
      createFrame(<< >>, CLOSE, FALSE, NoKey),
      createFrame(<<65>>, CONTINUATION, FALSE, NoKey) }

\* the frames a server sends to an Open session: one of each opcode the
\* session dispatches, a text of two bytes (the character U+00E9) that a read
\* may split, a PING with a payload, and a continuation frame
OpenFrames ==
    { createFrame(<<195, 169>>, TEXT, FALSE, NoKey),
      createFrame(<<66>>, BINARY, FALSE, NoKey),
      createFrame(<<80>>, PING, FALSE, NoKey),
      createFrame(<<81>>, PONG, FALSE, NoKey),
      createFrame(<< >>, CLOSE, FALSE, NoKey),
      createFrame(<<65>>, CONTINUATION, FALSE, NoKey) }

\* the codec's variables while the session runs
CodecIdle ==
    /\ input = [kind |-> "raw", payload |-> << >>, opcode |-> 0, mask |-> FALSE,
                key |-> NoKey, trail |-> << >>]
    /\ frame = << >>
    /\ buf = << >>
    /\ results = << >>
    /\ rx = << >>
    /\ segRes = NoResult
    /\ segStarted = FALSE
    /\ cpc = "idle"

Init ==
    /\ proxy \in BOOLEAN
    /\ Constructed
    /\ CodecIdle
    /\ TransportNew
    /\ HttpNew

\* reject(error) inside connect(): connect() rejects with the same error
Reject(error) ==
    /\ phase' = "rejected"
    /\ connectError' = error
    /\ log' = Append(log, Step("reject"))

\* connectHost and connectPort, client.js 69-70
ConnectHost == IF proxy THEN "proxy" ELSE "target"

\* connect() up to its first await, and createPersistentConnection up to
\* socket.connect (client.js 68-79, tcp.js 99-106)
ConnectCall ==
    /\ phase = "new"
    /\ phase' = "connecting"
    /\ sockState' = "connecting"
    /\ connectTo' = ConnectHost
    /\ UNCHANGED <<proxy, calls, thisSocket, writeEnded, listeners, tunnelTimer, handshakeTimer,
                   tunnelEstablished, handshakeComplete, tunnelResponse, handshakeResponse,
                   key, buffer, connected, log, connectError, wire, peer>>
    /\ UNCHANGED <<codecVars, transportVars, httpVars>>

\* the connect callback of tcp.js 106-116: the close and error handlers are
\* attached and the promise resolves with the socket
TcpConnected ==
    /\ phase = "connecting"
    /\ sockState = "connecting"
    /\ sockState' = "open"
    /\ phase' = "tcp resolved"
    /\ log' = Append(log, Step("tcp open"))
    /\ UNCHANGED <<proxy, calls, thisSocket, connectTo, writeEnded, listeners, tunnelTimer,
                   handshakeTimer, tunnelEstablished, handshakeComplete, tunnelResponse,
                   handshakeResponse, key, buffer, connected, connectError, wire, peer>>
    /\ UNCHANGED <<codecVars, transportVars, httpVars>>

\* the 'error' listener of tcp.js 118-124 while connecting; Node destroys a
\* socket whose connect failed
TcpError ==
    /\ phase = "connecting"
    /\ sockState = "connecting"
    /\ sockState' = "destroyed"
    /\ Reject(ConnectionError("ECONNREFUSED"))
    /\ UNCHANGED <<proxy, calls, thisSocket, connectTo, writeEnded, listeners, tunnelTimer,
                   handshakeTimer, tunnelEstablished, handshakeComplete, tunnelResponse,
                   handshakeResponse, key, buffer, connected, wire, peer>>
    /\ UNCHANGED <<codecVars, transportVars, httpVars>>

\* the 'timeout' listener of tcp.js 126-129
TcpTimeout ==
    /\ phase = "connecting"
    /\ sockState = "connecting"
    /\ sockState' = "destroyed"
    /\ Reject(TimeoutError)
    /\ UNCHANGED <<proxy, calls, thisSocket, connectTo, writeEnded, listeners, tunnelTimer,
                   handshakeTimer, tunnelEstablished, handshakeComplete, tunnelResponse,
                   handshakeResponse, key, buffer, connected, wire, peer>>
    /\ UNCHANGED <<codecVars, transportVars, httpVars>>

\* _establishProxyTunnel up to the end of its executor, client.js 108-159: the
\* timer is set, the listener attached and the CONNECT request written
_establishProxyTunnel(steps) ==
    /\ tunnelTimer' = "armed"
    /\ listeners' = listeners \cup {"tunnel"}
    /\ log' = Append(steps, Write("CONNECT", << >>, writeEnded))
    /\ phase' = "tunnel"
    /\ UNCHANGED <<handshakeTimer, key>>

\* _performHandshake up to the end of its executor, client.js 167-226
_performHandshake(steps) ==
    /\ \E k \in WebSocketKeys : key' = k
    /\ handshakeTimer' = "armed"
    /\ listeners' = listeners \cup {"handshake"}
    /\ log' = Append(steps, Write("handshake", << >>, writeEnded))
    /\ phase' = "handshake"
    /\ UNCHANGED tunnelTimer

\* a connect() that never goes through the proxy tunnel
UsesTunnel_Never == FALSE

\* client.js 82: if (this.proxy)
UsesTunnel == proxy

\* connect() from `this.socket =` (73) to its next await
ResumeAfterTcp ==
    /\ phase = "tcp resolved"
    /\ thisSocket' = TRUE
    /\ IF UsesTunnel THEN _establishProxyTunnel(log) ELSE _performHandshake(log)
    /\ UNCHANGED <<proxy, calls, sockState, connectTo, writeEnded, tunnelEstablished,
                   handshakeComplete, tunnelResponse, handshakeResponse, buffer,
                   connected, connectError, wire, peer>>
    /\ UNCHANGED <<codecVars, transportVars, httpVars>>

\* connect() from the end of `await this._establishProxyTunnel()` (83) to its
\* next await
ResumeAfterTunnel ==
    /\ phase = "tunnel resolved"
    /\ _performHandshake(log)
    /\ UNCHANGED <<proxy, calls, sockState, thisSocket, connectTo, writeEnded, tunnelEstablished,
                   handshakeComplete, tunnelResponse, handshakeResponse, buffer,
                   connected, connectError, wire, peer>>
    /\ UNCHANGED <<codecVars, transportVars, httpVars>>

\* the socket delivers the next n tokens to the 'data' listeners
Receive(n) ==
    /\ sockState = "open"
    /\ ~Pending
    /\ n \in 1..Len(wire)
    /\ wire' = SubSeq(wire, n + 1, Len(wire))

\* a tunnel check that takes any status line for a success
TunnelStatusOk_Any(statusLine) == TRUE

\* client.js 142: statusLine.includes('200')
TunnelStatusOk(statusLine) == Includes(statusLine, "200")

\* onData of _establishProxyTunnel, client.js 130-155
TunnelOnData(response) ==
    /\ tunnelResponse' = response
    /\ IF HeaderEnd(response) # -1 /\ ~tunnelEstablished
       THEN /\ tunnelEstablished' = TRUE
            /\ tunnelTimer' = "cleared"
            /\ listeners' = listeners \ {"tunnel"}
            /\ IF ~TunnelStatusOk(SplitLines(response)[1])
               THEN Reject(ConnectionError("PROXY_TUNNEL_ERROR"))
               ELSE /\ phase' = "tunnel resolved"
                    /\ log' = Append(log, Step("tunnel ok"))
                    /\ UNCHANGED connectError
       ELSE UNCHANGED <<tunnelEstablished, tunnelTimer, listeners, phase, log, connectError>>

TunnelData ==
    /\ "tunnel" \in listeners
    /\ \E n \in 1..Len(wire) :
        /\ Receive(n)
        /\ TunnelOnData(tunnelResponse \o SubSeq(wire, 1, n))
    /\ UNCHANGED <<proxy, calls, sockState, thisSocket, connectTo, writeEnded, handshakeTimer,
                   handshakeComplete, handshakeResponse, key, buffer, connected, peer>>
    /\ UNCHANGED <<codecVars, transportVars, httpVars>>

\* the timer of _establishProxyTunnel, client.js 120-128
TunnelTimeout ==
    /\ tunnelTimer = "armed"
    /\ ~Pending
    /\ tunnelTimer' = "fired"
    /\ IF ~tunnelEstablished
       THEN /\ listeners' = listeners \ {"tunnel"}
            /\ Reject(ConnectionError("PROXY_TUNNEL_TIMEOUT"))
       ELSE UNCHANGED <<listeners, phase, log, connectError>>
    /\ UNCHANGED <<proxy, calls, sockState, thisSocket, connectTo, writeEnded, handshakeTimer,
                   tunnelEstablished, handshakeComplete, tunnelResponse, handshakeResponse,
                   key, buffer, connected, wire, peer>>
    /\ UNCHANGED <<codecVars, transportVars, httpVars>>

\* an onData of _performHandshake that leaves its timer running
HandshakeOnData_TimerKept(response, validation) ==
    /\ handshakeResponse' = response
    /\ UNCHANGED handshakeTimer
    /\ IF HeaderEnd(response) # -1 /\ ~handshakeComplete
       THEN /\ handshakeComplete' = TRUE
            /\ listeners' = listeners \ {"handshake"}
            /\ IF ~validation.valid
               THEN /\ Reject(ConnectionError("WS_HANDSHAKE_ERROR"))
                    /\ UNCHANGED buffer
               ELSE /\ buffer' = Slice(response, HeaderEnd(response) + HeaderEndLen,
                                       Len(response))
                    /\ phase' = "handshake resolved"
                    /\ log' = Append(log, Step("handshake ok"))
                    /\ UNCHANGED connectError
       ELSE UNCHANGED <<handshakeComplete, listeners, phase, log, connectError, buffer>>

\* onData of _performHandshake, client.js 194-222
HandshakeOnData(response, validation) ==
    /\ handshakeResponse' = response
    /\ IF HeaderEnd(response) # -1 /\ ~handshakeComplete
       THEN /\ handshakeComplete' = TRUE
            /\ handshakeTimer' = "cleared"
            /\ listeners' = listeners \ {"handshake"}
            /\ IF ~validation.valid
               THEN /\ Reject(ConnectionError("WS_HANDSHAKE_ERROR"))
                    /\ UNCHANGED buffer
               ELSE /\ buffer' = Slice(response, HeaderEnd(response) + HeaderEndLen,
                                       Len(response))
                    /\ phase' = "handshake resolved"
                    /\ log' = Append(log, Step("handshake ok"))
                    /\ UNCHANGED connectError
       ELSE UNCHANGED <<handshakeComplete, handshakeTimer, listeners, phase, log,
                        connectError, buffer>>

HandshakeData ==
    /\ "handshake" \in listeners
    /\ \E n \in 1..Len(wire) :
        /\ Receive(n)
        /\ HandshakeOnData(handshakeResponse \o SubSeq(wire, 1, n),
                           validateHandshakeResponse(handshakeResponse \o SubSeq(wire, 1, n),
                                                     calculateAcceptKey(key)))
    /\ UNCHANGED <<proxy, calls, sockState, thisSocket, connectTo, writeEnded, tunnelTimer,
                   tunnelEstablished, tunnelResponse, key, connected, peer>>
    /\ UNCHANGED <<codecVars, transportVars, httpVars>>

\* the timer of _performHandshake, client.js 184-192
HandshakeTimeout ==
    /\ handshakeTimer = "armed"
    /\ ~Pending
    /\ handshakeTimer' = "fired"
    /\ IF ~handshakeComplete
       THEN /\ listeners' = listeners \ {"handshake"}
            /\ Reject(ConnectionError("WS_HANDSHAKE_TIMEOUT"))
       ELSE UNCHANGED <<listeners, phase, log, connectError>>
    /\ UNCHANGED <<proxy, calls, sockState, thisSocket, connectTo, writeEnded, tunnelTimer,
                   tunnelEstablished, handshakeComplete, tunnelResponse, handshakeResponse,
                   key, buffer, connected, wire, peer>>
    /\ UNCHANGED <<codecVars, transportVars, httpVars>>

\* connect() from the end of `await this._performHandshake()` (87) to its
\* return: the frame listener is attached, what the handshake left in the
\* buffer is processed, the session is connected and 'open' is emitted
Opened(s) ==
    Keep([s EXCEPT !.connected = TRUE, !.log = Append(@, Emit("open", << >>, "none"))])

ResumeAfterHandshake ==
    /\ phase = "handshake resolved"
    /\ listeners' = listeners \cup {"frames"}
    /\ \E maskingKey \in MaskKeys :
        Opened(IF Len(buffer) > 0 THEN _onData(Self, << >>, maskingKey) ELSE Self)
    /\ phase' = "resolved"
    /\ UNCHANGED <<proxy, calls, sockState, thisSocket, connectTo, tunnelTimer, handshakeTimer,
                   tunnelEstablished, handshakeComplete, tunnelResponse, handshakeResponse,
                   key, connectError, wire, peer>>
    /\ UNCHANGED <<codecVars, transportVars, httpVars>>

\* the 'data' listener of client.js 90
FrameData ==
    /\ "frames" \in listeners
    /\ \E n \in 1..Len(wire) :
        /\ Receive(n)
        /\ \E maskingKey \in MaskKeys :
            Keep(_onData(Self, SubSeq(wire, 1, n), maskingKey))
    /\ UNCHANGED <<proxy, calls, phase, sockState, thisSocket, connectTo, listeners, tunnelTimer,
                   handshakeTimer, tunnelEstablished, handshakeComplete, tunnelResponse,
                   handshakeResponse, key, connectError, peer>>
    /\ UNCHANGED <<codecVars, transportVars, httpVars>>

\* data that arrives while no 'data' listener is attached is read and lost
DataDropped ==
    /\ listeners = {}
    /\ \E n \in 1..Len(wire) : Receive(n)
    /\ UNCHANGED <<proxy, calls, phase, sockState, thisSocket, connectTo, writeEnded, listeners,
                   tunnelTimer, handshakeTimer, tunnelEstablished, handshakeComplete,
                   tunnelResponse, handshakeResponse, key, buffer, connected, log,
                   connectError, peer>>
    /\ UNCHANGED <<codecVars, transportVars, httpVars>>

\* an _onClose that emits nothing
_onClose_Silent(s) == [s EXCEPT !.connected = FALSE]

\* _onClose(), client.js 280-283
_onClose(s) ==
    [s EXCEPT !.connected = FALSE, !.log = Append(@, Emit("close", << >>, "none"))]

\* _onError(err), client.js 290-292
_onError(s) ==
    [s EXCEPT !.log = Append(@, Emit("error", << >>, "error"))]

\* the peer closes the connection after all it has sent was delivered: the
\* socket is destroyed and emits 'close'
PeerClose ==
    /\ sockState = "open"
    /\ ~Pending
    /\ wire = << >>
    /\ sockState' = "destroyed"
    /\ Keep(_onClose(Self))
    /\ UNCHANGED <<proxy, calls, phase, thisSocket, connectTo, listeners, tunnelTimer,
                   handshakeTimer, tunnelEstablished, handshakeComplete, tunnelResponse,
                   handshakeResponse, key, connectError, wire, peer>>
    /\ UNCHANGED <<codecVars, transportVars, httpVars>>

\* the connection fails: the socket emits 'error', is destroyed and emits
\* 'close'; what was in flight is lost
SocketError ==
    /\ sockState = "open"
    /\ ~Pending
    /\ sockState' = "destroyed"
    /\ wire' = << >>
    /\ Keep(_onClose(_onError(Self)))
    /\ UNCHANGED <<proxy, calls, phase, thisSocket, connectTo, listeners, tunnelTimer,
                   handshakeTimer, tunnelEstablished, handshakeComplete, tunnelResponse,
                   handshakeResponse, key, connectError, peer>>
    /\ UNCHANGED <<codecVars, transportVars, httpVars>>

\* the peer sends; its connection is the session's socket.  peer.stream is
\* all the peer has sent after its handshake response.
PeerSends(tokens, next, frames) ==
    /\ sockState = "open"
    /\ ~Pending
    /\ wire' = wire \o tokens
    /\ peer' = [next |-> next, frames |-> frames,
                stream |-> IF peer.next = "frames" THEN peer.stream \o tokens
                           ELSE peer.stream]
    /\ UNCHANGED <<proxy, calls, phase, sockState, thisSocket, connectTo, writeEnded, listeners,
                   tunnelTimer, handshakeTimer, tunnelEstablished, handshakeComplete,
                   tunnelResponse, handshakeResponse, key, buffer, connected, log,
                   connectError>>
    /\ UNCHANGED <<codecVars, transportVars, httpVars>>

\* the proxy answers the CONNECT request
PeerSendTunnel ==
    /\ peer.next = "tunnel"
    /\ \E status \in {Status200, Status407} :
        PeerSends(<<status, CRLF, CRLF>>,
                  IF status = Status200 THEN "handshake" ELSE "nothing", peer.frames)

\* the server answers the handshake request: a status line and one header
PeerSendHandshake ==
    /\ peer.next = "handshake"
    /\ \E status \in {Status101, Status400},
          header \in {AcceptA1, AcceptA2, AcceptLowerA1, AcceptA1Colon, UpgradeHeader} :
        PeerSends(<<status, CRLF, header, CRLF, CRLF>>,
                  IF status = Status101 THEN "frames" ELSE "nothing", peer.frames)

\* the server sends a frame
PeerSendFrame ==
    /\ peer.next = "frames"
    /\ peer.frames < MaxFrames
    /\ \E f \in ServerFrames : PeerSends(f, "frames", peer.frames + 1)

(***************************************************************************)
(* The owner of the session calls close(), send() and ping(), at any moment *)
(* between two handlers.  A call is logged from its start to its return or  *)
(* its throw.                                                               *)
(***************************************************************************)
\* bounds: the calls of close(), send() and ping() in one run
MaxCalls == 2

Called(s, method) == [s EXCEPT !.log = Append(@, Step(method))]

Returned(s) == [s EXCEPT !.log = Append(@, Step("return"))]

Thrown(s) == [s EXCEPT !.log = Append(@, Step("throw"))]

\* Buffer.from(string): the UTF-8 bytes of characters below U+0800
RECURSIVE Utf8Bytes(_)
Utf8Bytes(chars) ==
    IF Len(chars) = 0 THEN << >>
    ELSE IF chars[1] < 128 THEN <<chars[1]>> \o Utf8Bytes(Tail(chars))
    ELSE <<192 + (chars[1] \div 64), 128 + (chars[1] % 64)>> \o Utf8Bytes(Tail(chars))

\* what the owner sends: the string "é" or the one-byte Buffer 42
SendData == {[string |-> TRUE, data |-> <<233>>], [string |-> FALSE, data |-> <<66>>]}

\* _canSend(), client.js 299-301
_canSend(s) == s.connected /\ thisSocket /\ sockState # "destroyed"

\* send(data), client.js 308-315; createFrame turns a string into bytes (index.js 126)
send(s, d, maskingKey) ==
    IF ~_canSend(s) THEN Thrown(s)
    ELSE Returned(_sendFrame(s, IF d.string THEN Utf8Bytes(d.data) ELSE d.data,
                             IF d.string THEN TEXT ELSE BINARY, maskingKey))

\* ping(data = ''), client.js 336-341
ping(s, maskingKey) ==
    IF ~_canSend(s) THEN Thrown(s)
    ELSE Returned(_sendFrame(s, << >>, PING, maskingKey))

\* one call of the owner
Call ==
    /\ ~Pending
    /\ calls < MaxCalls
    /\ calls' = calls + 1
    /\ UNCHANGED <<proxy, phase, sockState, thisSocket, connectTo, listeners, tunnelTimer,
                   handshakeTimer, tunnelEstablished, handshakeComplete, tunnelResponse,
                   handshakeResponse, key, connectError, wire, peer>>
    /\ UNCHANGED <<codecVars, transportVars, httpVars>>

CloseCall ==
    /\ Call
    /\ \E maskingKey \in MaskKeys :
        Keep(Returned(close(Called(Self, "close()"), maskingKey)))

SendCall ==
    /\ Call
    /\ \E d \in SendData, maskingKey \in MaskKeys :
        Keep(send(Called(Self, "send()"), d, maskingKey))

PingCall ==
    /\ Call
    /\ \E maskingKey \in MaskKeys :
        Keep(ping(Called(Self, "ping()"), maskingKey))

Next ==
    \/ ConnectCall
    \/ TcpConnected
    \/ TcpError
    \/ TcpTimeout
    \/ ResumeAfterTcp
    \/ ResumeAfterTunnel
    \/ ResumeAfterHandshake
    \/ TunnelData
    \/ TunnelTimeout
    \/ HandshakeData
    \/ HandshakeTimeout
    \/ FrameData
    \/ DataDropped
    \/ PeerClose
    \/ SocketError
    \/ PeerSendTunnel
    \/ PeerSendHandshake
    \/ PeerSendFrame

Spec == Init /\ [][Next]_vars

\* the session in time: a timer that is armed fires unless it is cleared
\* first (setTimeout, client.js 120 and 184)
SpecLive ==
    /\ Spec
    /\ WF_vars(TunnelTimeout)
    /\ WF_vars(HandshakeTimeout)

(***************************************************************************)
(* The session with its owner: a client without a proxy, a server that      *)
(* answers the handshake request as RFC 6455 asks and then sends frames,    *)
(* and an owner that calls close(), send() and ping().                      *)
(***************************************************************************)
\* the header line a conforming server answers the session's key with
AcceptFor(k) == IF k = "K1" THEN AcceptA1 ELSE AcceptA2

\* the server has read the handshake request and accepts it
PeerAccepts ==
    /\ peer.next = "handshake"
    /\ key # ""
    /\ PeerSends(<<Status101, CRLF, AcceptFor(key), CRLF, CRLF>>, "frames", peer.frames)

\* the server sends a frame to the session it accepted
PeerSendOpenFrame ==
    /\ peer.next = "frames"
    /\ peer.frames < MaxFrames
    /\ \E f \in OpenFrames : PeerSends(f, "frames", peer.frames + 1)

InitOwner ==
    /\ proxy = FALSE
    /\ Constructed
    /\ CodecIdle
    /\ TransportNew
    /\ HttpNew

NextOwner ==
    \/ ConnectCall
    \/ TcpConnected
    \/ ResumeAfterTcp
    \/ HandshakeData
    \/ HandshakeTimeout
    \/ ResumeAfterHandshake
    \/ FrameData
    \/ DataDropped
    \/ PeerClose
    \/ SocketError
    \/ PeerAccepts
    \/ PeerSendOpenFrame
    \/ CloseCall
    \/ SendCall
    \/ PingCall

SpecOwner == InitOwner /\ [][NextOwner]_vars

(***************************************************************************)
(* Properties of the session, checked under Spec.                           *)
(***************************************************************************)
\* the place of the first log entry of kind t about `what`; 0 when there is none
Index(t, what) ==
    LET at == {i \in 1..Len(log) : log[i].t = t /\ log[i].what = what}
    IN  IF at = {} THEN 0 ELSE CHOOSE i \in at : \A j \in at : i <= j

Writes == {i \in 1..Len(log) : log[i].t \in {"write", "write after end"}}

\* the session is Open, or has been
Open == connected \/ phase = "resolved" \/ Index("emit", "open") > 0

\* the status line of the proxy's response
TunnelStatusLine == SplitLines(tunnelResponse)[1]

\* C5: a session becomes Open only after the TCP connection was opened, then,
\* when and only when a proxy is configured, the tunnel succeeded on a status
\* line that contains 200, then the handshake response was validated, in this
\* order; the handshake request is never written before the tunnel succeeded,
\* and no tunnel takes place without a proxy.
C5_PhaseOrder ==
    LET tcp == Index("step", "tcp open")
        tunnel == Index("step", "tunnel ok")
        request == Index("write", "handshake")
        validated == Index("step", "handshake ok")
        open == Index("emit", "open")
    IN  /\ Open =>
            /\ 0 < tcp /\ tcp < validated /\ validated < open
            /\ proxy <=> tunnel > 0
            /\ proxy => /\ tcp < tunnel /\ tunnel < validated
                        /\ Includes(TunnelStatusLine, "200")
        /\ request > 0 =>
            /\ 0 < tcp /\ tcp < request
            /\ proxy => 0 < tunnel /\ tunnel < request
        /\ (tunnelTimer # "unset" \/ Index("write", "CONNECT") > 0 \/ tunnel > 0) => proxy

\* a session went through the proxy and is Open
C5_Witness == proxy /\ connected /\ phase = "resolved"

\* C6: with a proxy the TCP connection goes to the proxy.  When the status
\* line of the proxy's first complete header block does not contain 200,
\* connect() rejects with the code PROXY_TUNNEL_ERROR, which is no handshake
\* code, and nothing but the CONNECT request was written; when it contains
\* 200, the handshake request is written next, on the socket to the proxy.
C6_TunnelOutcome ==
    /\ (proxy /\ sockState # "none") => connectTo = "proxy"
    /\ (tunnelEstablished /\ ~Includes(TunnelStatusLine, "200")) =>
        /\ phase = "rejected"
        /\ connectError = ConnectionError("PROXY_TUNNEL_ERROR")
        /\ connectError.code \notin {"WS_HANDSHAKE_ERROR", "WS_HANDSHAKE_TIMEOUT"}
        /\ \A i \in Writes : log[i].what = "CONNECT"
    /\ (tunnelEstablished /\ Includes(TunnelStatusLine, "200") /\ phase # "tunnel resolved") =>
        /\ Index("write", "handshake") = Index("step", "tunnel ok") + 1
        /\ connectTo = "proxy"

\* the proxy refused the tunnel and connect() has rejected
C6_Witness ==
    /\ tunnelEstablished
    /\ TunnelStatusLine = <<Status407>>
    /\ phase = "rejected"

\* the header block of the handshake response: what precedes "\r\n\r\n"
HeaderBlock == SplitLines(Slice(handshakeResponse, 0, HeaderEnd(handshakeResponse)))

\* the parts of a line from the k-th on, with the colons between them
RECURSIVE JoinColon(_, _)
JoinColon(parts, k) ==
    IF k > Len(parts) THEN << >>
    ELSE IF k = Len(parts) THEN parts[k]
    ELSE parts[k] \o <<":">> \o JoinColon(parts, k + 1)

\* the value of the Sec-WebSocket-Accept header of the header block: all that
\* follows the name's colon, without the white space around it
AcceptValue ==
    IF AcceptLine(HeaderBlock) = 0 THEN << >>
    ELSE trim(JoinColon(SplitColon(HeaderBlock[AcceptLine(HeaderBlock)]), 2))

\* C7: the handshake is validated exactly when the status line contains 101
\* and the header block has a Sec-WebSocket-Accept header whose value equals
\* the accept value of the key this session sent; otherwise connect() rejects
\* with a handshake error, the session is not Open, emits no 'open' and
\* writes no second handshake request.
C7_HandshakeValidation ==
    handshakeComplete =>
        LET valid == /\ Includes(HeaderBlock[1], "101")
                     /\ AcceptLine(HeaderBlock) > 0
                     /\ AcceptValue = calculateAcceptKey(key)
        IN  /\ valid <=> Index("step", "handshake ok") > 0
            /\ ~valid =>
                /\ phase = "rejected"
                /\ connectError = ConnectionError("WS_HANDSHAKE_ERROR")
                /\ ~Open
                /\ Cardinality({i \in Writes : log[i].what = "handshake"}) = 1

\* C8: when connect() has rejected after the TCP connection was opened, the
\* session's socket is destroyed.
C8_TeardownBeforeFailure ==
    (phase = "rejected" /\ thisSocket) => sockState = "destroyed"

\* C9: a rejection that the tunnel timer or the handshake timer produced is a
\* TimeoutError.
C9_TimeoutErrorKind ==
    (phase = "rejected" /\ (tunnelTimer = "fired" \/ handshakeTimer = "fired")) =>
        connectError.name = "TimeoutError"

\* what follows the header block in the handshake response
Leftover ==
    Slice(handshakeResponse, HeaderEnd(handshakeResponse) + HeaderEndLen,
          Len(handshakeResponse))

\* the complete frames at the front of bytes, in order
RECURSIVE FramesOf(_)
FramesIn(parsed) ==
    IF ~parsed.complete THEN << >>
    ELSE <<parsed>> \o FramesOf(Slice(parsed.buffer, parsed.frameLength, Len(parsed.buffer)))

FramesOf(bytes) == FramesIn(parseFrame(bytes))

\* the events the session emitted between two places of the log
EventsBetween(from, to) ==
    SelectSeq(SubSeq(log, from + 1, to - 1), LAMBDA e : e.t = "emit")

\* event e reports frame f
Reports(e, f) ==
    CASE f.opcode = TEXT -> e.what = "message" /\ e.type = "string" /\ e.data = Utf8(f.payload)
      [] f.opcode = BINARY -> e.what = "message" /\ e.type = "buffer" /\ e.data = f.payload
      [] f.opcode = PING -> e.what = "ping" /\ e.data = f.payload
      [] f.opcode = PONG -> e.what = "pong" /\ e.data = f.payload
      [] f.opcode = CLOSE -> e.what = "close" /\ e.data = f.payload
      [] OTHER -> TRUE

\* C10: when the handshake has succeeded, the session buffer is exactly what
\* followed the header block; when the session is Open, every complete frame
\* of those bytes has been reported by one event, in order, and what is left
\* in the buffer is the incomplete rest.
C10_LeftoverDispatched ==
    /\ phase = "handshake resolved" => buffer = Leftover
    /\ Index("emit", "open") > 0 =>
        LET events == EventsBetween(Index("step", "handshake ok"), Index("emit", "open"))
            frames == FramesOf(Leftover)
        IN  /\ Len(events) = Len(frames)
            /\ \A i \in 1..Len(frames) : i <= Len(events) => Reports(events[i], frames[i])

\* what follows the header block in the proxy's response
TunnelLeftover ==
    Slice(tunnelResponse, HeaderEnd(tunnelResponse) + HeaderEndLen, Len(tunnelResponse))

IsPrefix(a, b) == Len(a) <= Len(b) /\ SubSeq(b, 1, Len(a)) = a

\* C11: at most one 'data' listener is attached at a time, and once the tunnel
\* has succeeded and the handshake phase has begun, the bytes that followed
\* the proxy's header block in the same read are the first bytes the
\* handshake phase has seen.
C11_PhaseIsolation ==
    /\ Cardinality(listeners) <= 1
    /\ (Index("step", "tunnel ok") > 0 /\ phase # "tunnel resolved") =>
        IsPrefix(TunnelLeftover, handshakeResponse)

(***************************************************************************)
(* Properties of the session and its owner, checked under SpecOwner.        *)
(***************************************************************************)
\* what the session has received after the handshake response, while its
\* socket is open: all the peer has sent but what is still in flight
Inbound == SubSeq(peer.stream, 1, Len(peer.stream) - Len(wire))

\* the events that report frames: no 'open', no 'error', and no 'close' that
\* comes from the socket
FrameEvents ==
    SelectSeq(log, LAMBDA e : /\ e.t = "emit"
                              /\ e.what \in {"message", "ping", "pong", "close"}
                              /\ e.type # "none")

IsFrameWrite(e) == e.t \in {"write", "write after end"} /\ e.what = "frame"

\* close() ran right after log entry i: it wrote at most a frame and ended the
\* socket
ClosedAfter(i) ==
    \/ /\ i + 1 <= Len(log)
       /\ log[i + 1] = Step("socket.end()")
    \/ /\ i + 2 <= Len(log)
       /\ IsFrameWrite(log[i + 1])
       /\ log[i + 2] = Step("socket.end()")

\* C12: once connect() has resolved, every complete frame among the bytes the
\* session received after the handshake response has been reported by exactly
\* one event, in the order of the frames: TEXT by 'message' with the decoded
\* text, BINARY by 'message' with the payload, PING by 'ping', PONG by 'pong',
\* CLOSE by 'close' followed by a local close().
C12_DispatchByOpcode ==
    (phase = "resolved" /\ sockState = "open") =>
        /\ Len(FrameEvents) = Len(FramesOf(Inbound))
        /\ \A i \in 1..Len(FramesOf(Inbound)) :
            i <= Len(FrameEvents) => Reports(FrameEvents[i], FramesOf(Inbound)[i])
        /\ \A i \in 1..Len(log) :
            (log[i].t = "emit" /\ log[i].what = "close" /\ log[i].type # "none") =>
                ClosedAfter(i)

Count(seq, Test(_)) == Len(SelectSeq(seq, Test))

IsPingEvent(e) == e.t = "emit" /\ e.what = "ping"

IsWriteOf(e, opcode) == IsFrameWrite(e) /\ parseFrame(e.data).opcode = opcode

IsPongWrite(e) == IsWriteOf(e, PONG)

IsPingFrame(f) == f.opcode = PING

\* C13: every 'ping' event follows at once the write of one PONG frame whose
\* payload, unmasked, is the payload of the event, and once connect() has
\* resolved there are as many PONG writes and 'ping' events as PING frames
\* received.
C13_AutomaticPong ==
    /\ \A i \in 1..Len(log) :
        IsPingEvent(log[i]) =>
            /\ i > 1
            /\ IsPongWrite(log[i - 1])
            /\ parseFrame(log[i - 1].data).complete
            /\ parseFrame(log[i - 1].data).frameLength = Len(log[i - 1].data)
            /\ parseFrame(log[i - 1].data).payload = log[i].data
    /\ (phase = "resolved" /\ sockState = "open") =>
        /\ Count(log, IsPingEvent) = Count(FramesOf(Inbound), IsPingFrame)
        /\ Count(log, IsPongWrite) = Count(FramesOf(Inbound), IsPingFrame)

\* an Open session has received a PING with a payload
C13_Witness ==
    \E i \in 1..Len(log) :
        /\ log[i] = Emit("ping", <<80>>, "buffer")
        /\ 0 < Index("emit", "open")
        /\ Index("emit", "open") < i
        /\ log[i - 1].t = "write"

IsCloseWrite(e) == IsWriteOf(e, CLOSE)

IsCloseCall(e) == e = Step("close()")

\* the call that starts at log entry i has returned
ReturnedAfter(i) ==
    \E j \in (i + 1)..Len(log) :
        /\ log[j] = Step("return")
        /\ \A k \in (i + 1)..(j - 1) : IsFrameWrite(log[k]) \/ log[k] = Step("socket.end()")

\* C14: over all close() calls and CLOSE frames received, the session writes
\* at most one CLOSE frame, and every close() call returns.
C14_CloseIdempotent ==
    /\ Count(log, IsCloseWrite) <= 1
    /\ \A i \in 1..Len(log) : IsCloseCall(log[i]) => ReturnedAfter(i)

\* close() was called twice on a session that was Open
C14_Witness ==
    /\ Count(log, IsCloseCall) = 2
    /\ 0 < Index("emit", "open")
    /\ Index("emit", "open") < Index("step", "close()")
    /\ Count(log, IsCloseWrite) = 1

\* C17: every frame the session writes has FIN set and the mask bit set, and
\* is complete with its four key bytes.
C17_WritesMasked ==
    \A i \in 1..Len(log) :
        IsFrameWrite(log[i]) =>
            /\ Len(log[i].data) >= 6
            /\ (log[i].data[1] \div 128) % 2 = 1
            /\ (log[i].data[2] \div 128) % 2 = 1
            /\ parseFrame(log[i].data).complete
            /\ parseFrame(log[i].data).frameLength = Len(log[i].data)

\* the session has written a PONG, a frame of send() and a CLOSE frame
C17_Witness ==
    /\ Count(log, IsPongWrite) > 0
    /\ Count(log, IsCloseWrite) > 0
    /\ \E i \in 1..Len(log) : IsWriteOf(log[i], TEXT)

IsOpenEvent(e) == e.t = "emit" /\ e.what = "open"

IsCloseEvent(e) == e.t = "emit" /\ e.what = "close"

\* 'open' was emitted before log entry i
OpenedAt(i) == \E j \in 1..(i - 1) : IsOpenEvent(log[j])

\* before log entry i the session was closed: a CLOSE frame was received or
\* the socket closed ('close' was emitted), or close() was called when Open
ClosedAt(i) ==
    \E j \in 1..(i - 1) :
        \/ IsCloseEvent(log[j])
        \/ IsCloseCall(log[j]) /\ OpenedAt(j)

\* the session is not in the Open state at log entry i
NotOpenAt(i) == ~OpenedAt(i) \/ ClosedAt(i)

\* C15: a close() call on a session that is not Open returns at once: it
\* writes nothing and does not end the socket.
C15_CloseNotOpenNoOp ==
    \A i \in 1..Len(log) :
        (IsCloseCall(log[i]) /\ NotOpenAt(i)) =>
            /\ i + 1 <= Len(log)
            /\ log[i + 1] = Step("return")

IsSendCall(e) == e = Step("send()") \/ e = Step("ping()")

\* C16: a send() or ping() call on a session that is not Open throws at once:
\* it writes nothing.
C16_SendNotOpenThrows ==
    \A i \in 1..Len(log) :
        (IsSendCall(log[i]) /\ NotOpenAt(i)) =>
            /\ i + 1 <= Len(log)
            /\ log[i + 1] = Step("throw")

(***************************************************************************)
(* The transport, src/lib/transport/tcp.js.  sendRequest (http/client.js    *)
(* 102-112) awaits createConnection and then sendAndReceive on the same      *)
(* socket; the session awaits createPersistentConnection.  Time passes in   *)
(* ticks.  socket.setTimeout(ms) arms the socket's inactivity timer: every   *)
(* read and write restarts it, and 'timeout' is emitted when the socket has  *)
(* been idle for ms.                                                        *)
(***************************************************************************)
\* bounds: the timeout of a call in ticks, the ticks of one run, the chunks
\* the peer sends
Timeout == 2

MaxElapsed == 5

MaxChunks == 2

\* the chunks of a response
Chunks == {<<72>>, <<79, 75>>}

\* the codes of a socket error: the write fails, or the peer resets
ErrorCodes == {"WRITE_ERROR", "ECONNRESET"}

Resolved(value) == [state |-> "resolved", value |-> value, error |-> NoError]

Rejected(error) == [state |-> "rejected", value |-> << >>, error |-> error]

\* a promise that its last resolve or reject call settles
Settle_LastWins(p, outcome) == outcome

\* resolve(...) and reject(...): a settled promise stays as it is
Settle(p, outcome) == IF p.state = "pending" THEN outcome ELSE p

\* the 'close' listener of sendAndReceive, tcp.js 72-74
OnClose(p) == IF stage = "sendAndReceive" THEN Settle(p, Resolved(responseBytes)) ELSE p

\* createConnection(options), tcp.js 19-46, called by sendRequest
CreateConnection ==
    /\ stage = "none"
    /\ stage' = "createConnection"
    /\ netSocket' = "connecting"
    /\ socketTimeout' = Timeout
    /\ idle' = 0
    /\ elapsed' = 0
    /\ promise' = PendingPromise
    /\ UNCHANGED <<responseBytes, chunks, happened>>
    /\ UNCHANGED <<codecVars, sessionVars, httpVars>>

\* createPersistentConnection(options), tcp.js 99-131
CreatePersistentConnection ==
    /\ stage = "none"
    /\ stage' = "createPersistentConnection"
    /\ netSocket' = "connecting"
    /\ socketTimeout' = Timeout
    /\ idle' = 0
    /\ elapsed' = 0
    /\ promise' = PendingPromise
    /\ UNCHANGED <<responseBytes, chunks, happened>>
    /\ UNCHANGED <<codecVars, sessionVars, httpVars>>

\* the connect callback of createConnection (26-28) resolves, and sendRequest
\* goes on at once with sendAndReceive(socket, request, timeout), tcp.js 56-84:
\* a new promise, an empty response, the timer armed again, the request written
ConnectionConnected ==
    /\ stage = "createConnection"
    /\ netSocket = "connecting"
    /\ netSocket' = "open"
    /\ stage' = "sendAndReceive"
    /\ promise' = PendingPromise
    /\ responseBytes' = << >>
    /\ chunks' = << >>
    /\ socketTimeout' = Timeout
    /\ idle' = 0
    /\ elapsed' = 0
    /\ UNCHANGED happened
    /\ UNCHANGED <<codecVars, sessionVars, httpVars>>

\* a connect callback that leaves the timer armed
ConnectCallbackTimeout_Armed == socketTimeout

\* socket.setTimeout(0), tcp.js 108
ConnectCallbackTimeout == 0

\* the connect callback of createPersistentConnection, tcp.js 106-116
PersistentConnected ==
    /\ stage = "createPersistentConnection"
    /\ netSocket = "connecting"
    /\ netSocket' = "open"
    /\ socketTimeout' = ConnectCallbackTimeout
    /\ idle' = 0
    /\ promise' = Settle(promise, Resolved(<< >>))
    /\ UNCHANGED <<stage, elapsed, responseBytes, chunks, happened>>
    /\ UNCHANGED <<codecVars, sessionVars, httpVars>>

\* the connection fails: the 'error' listener of createConnection (30-36) or
\* of createPersistentConnection (118-124) rejects
ConnectFails ==
    /\ netSocket = "connecting"
    /\ netSocket' = "closed"
    /\ \E code \in {"ECONNREFUSED"} : promise' = Settle(promise, Rejected(ConnectionError(code)))
    /\ happened' = happened \cup {"error"}
    /\ UNCHANGED <<stage, socketTimeout, idle, elapsed, responseBytes, chunks>>
    /\ UNCHANGED <<codecVars, sessionVars, httpVars>>

\* one tick passes on a live socket; an armed timer does not let the socket
\* stay idle longer than its timeout
Tick ==
    /\ netSocket \in {"connecting", "open"}
    /\ elapsed < MaxElapsed
    /\ socketTimeout > 0 => idle < socketTimeout
    /\ idle' = idle + 1
    /\ elapsed' = elapsed + 1
    /\ UNCHANGED <<stage, netSocket, socketTimeout, responseBytes, chunks, promise, happened>>
    /\ UNCHANGED <<codecVars, sessionVars, httpVars>>

\* 'timeout': the listeners of createConnection (38-44), of sendAndReceive
\* (80-83, with the one of createConnection still attached) or of
\* createPersistentConnection (126-129) destroy the socket and reject; the
\* destroyed socket then emits 'close'
SocketTimeout ==
    /\ netSocket \in {"connecting", "open"}
    /\ socketTimeout > 0
    /\ idle = socketTimeout
    /\ netSocket' = "destroyed"
    /\ promise' = OnClose(Settle(promise, Rejected(TimeoutError)))
    /\ happened' = happened \cup {"timeout"}
    /\ UNCHANGED <<stage, socketTimeout, idle, elapsed, responseBytes, chunks>>
    /\ UNCHANGED <<codecVars, sessionVars, httpVars>>

\* 'data': the listener of sendAndReceive (68-70) appends the chunk; on a
\* persistent connection the chunk goes to options.onData (111); a timer that
\* is due fires before the chunk is read
SocketData ==
    /\ stage \in {"sendAndReceive", "createPersistentConnection"}
    /\ netSocket = "open"
    /\ socketTimeout > 0 => idle < socketTimeout
    /\ Len(chunks) < MaxChunks
    /\ \E chunk \in Chunks :
        /\ chunks' = Append(chunks, chunk)
        /\ responseBytes' = IF stage = "sendAndReceive" THEN responseBytes \o chunk
                            ELSE responseBytes
    /\ idle' = 0
    /\ UNCHANGED <<stage, netSocket, socketTimeout, elapsed, promise, happened>>
    /\ UNCHANGED <<codecVars, sessionVars, httpVars>>

\* the peer closes the connection: 'close'
SocketClose ==
    /\ netSocket = "open"
    /\ netSocket' = "closed"
    /\ promise' = OnClose(promise)
    /\ happened' = happened \cup {"peer close"}
    /\ UNCHANGED <<stage, socketTimeout, idle, elapsed, responseBytes, chunks>>
    /\ UNCHANGED <<codecVars, sessionVars, httpVars>>

\* the open socket fails: the write callback (62-66) or the 'error' listener
\* (76-78) of sendAndReceive rejects, whichever runs first, then 'close'; on a
\* persistent connection the error goes to options.onError (113)
SocketFails ==
    /\ netSocket = "open"
    /\ netSocket' = "closed"
    /\ \E code \in ErrorCodes :
        promise' = OnClose(IF stage = "sendAndReceive"
                           THEN Settle(promise, Rejected(ConnectionError(code)))
                           ELSE promise)
    /\ happened' = happened \cup {"error"}
    /\ UNCHANGED <<stage, socketTimeout, idle, elapsed, responseBytes, chunks>>
    /\ UNCHANGED <<codecVars, sessionVars, httpVars>>

InitTransport ==
    /\ TransportNew
    /\ HttpNew
    /\ SessionNew
    /\ CodecIdle

NextTransport ==
    \/ CreateConnection
    \/ CreatePersistentConnection
    \/ ConnectionConnected
    \/ PersistentConnected
    \/ ConnectFails
    \/ Tick
    \/ SocketTimeout
    \/ SocketData
    \/ SocketClose
    \/ SocketFails

SpecTransport == InitTransport /\ [][NextTransport]_vars

(***************************************************************************)
(* Properties of the transport                                             *)
(***************************************************************************)
\* Buffer.concat over the chunks, in arrival order
RECURSIVE Concat(_)
Concat(list) == IF Len(list) = 0 THEN << >> ELSE Head(list) \o Concat(Tail(list))

\* C18: the promise of sendAndReceive is pending while the connection is
\* open; when the peer closes it is resolved with the concatenation of the
\* chunks received, in order; after a socket error or a timeout it is
\* rejected, and the 'close' that follows does not resolve it.
C18_OneShotResult ==
    stage = "sendAndReceive" =>
        /\ netSocket = "open" => promise = PendingPromise
        /\ promise.state = "resolved" => "peer close" \in happened
        /\ "peer close" \in happened => promise = Resolved(Concat(chunks))
        /\ "error" \in happened =>
            /\ promise.state = "rejected"
            /\ promise.error.name = "ConnectionError"
        /\ "timeout" \in happened => promise = Rejected(TimeoutError)
        /\ promise.state # "pending" => netSocket \in {"closed", "destroyed"}

\* the peer sent two chunks and closed
C18_Witness ==
    /\ stage = "sendAndReceive"
    /\ chunks = <<(<<72>>), (<<79, 75>>)>>
    /\ "peer close" \in happened
    /\ promise = Resolved(<<72, 79, 75>>)

\* C19: once more than the timeout has passed since sendAndReceive started
\* and the peer has not closed, the call is rejected with a TimeoutError and
\* the socket is destroyed, however many chunks have arrived.
C19_WholeExchangeTimer ==
    (/\ stage = "sendAndReceive"
     /\ elapsed > Timeout
     /\ "peer close" \notin happened
     /\ "error" \notin happened) =>
        /\ promise = Rejected(TimeoutError)
        /\ netSocket = "destroyed"

\* C20: createPersistentConnection does not stay unconnected longer than the
\* timeout; it is rejected with a TimeoutError, the socket destroyed, exactly
\* when the timer fires, which it does only before the connection is
\* established; once resolved the timer is off and the socket is open until
\* the peer closes or an error occurs.
C20_NoIdleTimeout ==
    stage = "createPersistentConnection" =>
        /\ netSocket = "connecting" => elapsed <= Timeout
        /\ "timeout" \in happened <=> promise = Rejected(TimeoutError)
        /\ "timeout" \in happened => netSocket = "destroyed" /\ elapsed = Timeout
        /\ promise.state = "resolved" =>
            /\ socketTimeout = 0
            /\ netSocket # "destroyed"
            /\ netSocket = "open" \/ "peer close" \in happened \/ "error" \in happened

\* a resolved persistent connection has been idle longer than the timeout
C20_Witness ==
    /\ stage = "createPersistentConnection"
    /\ promise.state = "resolved"
    /\ netSocket = "open"
    /\ idle > Timeout

\* what is left of bytes once the complete frames at their front are taken off
RECURSIVE RestOf(_)
RestIn(bytes, parsed) ==
    IF ~parsed.complete THEN bytes
    ELSE RestOf(Slice(parsed.buffer, parsed.frameLength, Len(parsed.buffer)))

RestOf(bytes) == RestIn(bytes, parseFrame(bytes))

\* C30: once connect() has resolved, between two handlers the session buffer
\* holds no complete frame, and while the socket is open it is what the server
\* has sent after its handshake response and the socket has delivered, less
\* the complete frames at its front.
C30_BufferInvariant ==
    phase = "resolved" =>
        /\ ~parseFrame(buffer).complete
        /\ sockState = "open" => buffer = RestOf(Inbound)

\* a frame was dispatched and the buffer holds the first bytes of the next
C30_Witness ==
    /\ phase = "resolved"
    /\ sockState = "open"
    /\ Len(FramesOf(Inbound)) >= 1
    /\ Len(buffer) > 0
    /\ Len(buffer) < Len(Inbound)

(***************************************************************************)
(* JavaScript strings, as sequences of one-character strings, and the       *)
(* String methods the HTTP code calls.  Offsets are 0-based as in the       *)
(* source.                                                                  *)
(***************************************************************************)
UpperLetters == <<"A", "B", "C", "D", "E", "F", "G", "H", "I", "J", "K", "L", "M", "N", "O", "P", "Q", "R", "S", "T", "U", "V", "W", "X", "Y", "Z">>

LowerLetters == <<"a", "b", "c", "d", "e", "f", "g", "h", "i", "j", "k", "l", "m", "n", "o", "p", "q", "r", "s", "t", "u", "v", "w", "x", "y", "z">>

DigitChars == <<"0", "1", "2", "3", "4", "5", "6", "7", "8", "9">>

\* the position of character c in the sequence chars, 0 when it is not there
PositionIn(c, chars) ==
    IF \E i \in 1..Len(chars) : chars[i] = c
    THEN CHOOSE i \in 1..Len(chars) : chars[i] = c
    ELSE 0

\* s.toLowerCase(), s.toUpperCase()
LowerCase(s) ==
    [i \in 1..Len(s) |-> IF PositionIn(s[i], UpperLetters) > 0
                         THEN LowerLetters[PositionIn(s[i], UpperLetters)] ELSE s[i]]

UpperCase(s) ==
    [i \in 1..Len(s) |-> IF PositionIn(s[i], LowerLetters) > 0
                         THEN UpperLetters[PositionIn(s[i], LowerLetters)] ELSE s[i]]

\* the white space of trim() and of \s
WhiteSpace == {" ", "\t", "\r", "\n"}

\* s.trim()
RECURSIVE Trimmed(_)
Trimmed(s) ==
    IF Len(s) = 0 THEN s
    ELSE IF s[1] \in WhiteSpace THEN Trimmed(Tail(s))
    ELSE IF s[Len(s)] \in WhiteSpace THEN Trimmed(SubSeq(s, 1, Len(s) - 1))
    ELSE s

\* the least element of a non-empty set of numbers
Least(S) == CHOOSE x \in S : \A y \in S : x <= y

\* s.indexOf(sub): the first 0-based offset of sub in s, -1 when there is none
indexOf(s, sub) ==
    LET at == {i \in 0..(Len(s) - Len(sub)) : SubSeq(s, i + 1, i + Len(sub)) = sub}
    IN  IF at = {} THEN -1 ELSE Least(at)

\* s.substring(from, to): negative offsets count as 0, offsets beyond the end
\* as the length, and the two are swapped when from > to
Clamp(s, n) == IF n < 0 THEN 0 ELSE IF n > Len(s) THEN Len(s) ELSE n

substring(s, from, to) ==
    LET a == Clamp(s, from)
        b == Clamp(s, to)
    IN  IF a <= b THEN SubSeq(s, a + 1, b) ELSE SubSeq(s, b + 1, a)

\* s.substring(from)
substringFrom(s, from) == substring(s, from, Len(s))

\* s.startsWith(prefix)
startsWith(s, prefix) == Len(prefix) <= Len(s) /\ SubSeq(s, 1, Len(prefix)) = prefix

\* s.split(sep), sep not empty
RECURSIVE split(_, _)
split(s, sep) ==
    IF indexOf(s, sep) = -1 THEN <<s>>
    ELSE <<substring(s, 0, indexOf(s, sep))>>
         \o split(substringFrom(s, indexOf(s, sep) + Len(sep)), sep)

\* `${n}` of a number n >= 0
RECURSIVE Decimal(_)
Decimal(n) ==
    IF n < 10 THEN <<DigitChars[n + 1]>>
    ELSE Decimal(n \div 10) \o <<DigitChars[(n % 10) + 1]>>

\* the strings of a list, one after the other
RECURSIVE JoinAll(_)
JoinAll(list) == IF Len(list) = 0 THEN << >> ELSE Head(list) \o JoinAll(Tail(list))

NewLine == <<"\r", "\n">>

\* A character outside ASCII is written U+xxxx and a byte outside ASCII 0xXX;
\* an ASCII character and its byte are written alike.  The UTF-8 bytes of the
\* characters the inputs hold:
BytesOfChar(c) == IF c = "U+00E9" THEN <<"0xC3", "0xA9">> ELSE <<c>>

\* Buffer.from(string), request.js 85, 97, 106, 172, 183, 188
RECURSIVE BufferFrom(_)
BufferFrom(s) ==
    IF Len(s) = 0 THEN << >>
    ELSE IF Len(s) = 1 THEN BytesOfChar(s[1])
    ELSE BufferFrom(SubSeq(s, 1, Len(s) \div 2))
         \o BufferFrom(SubSeq(s, Len(s) \div 2 + 1, Len(s)))

\* a byteLength that counts characters
byteLength_Characters(s) == Len(s)

\* Buffer.byteLength(data), request.js 179
byteLength(s) == Len(BufferFrom(s))

(***************************************************************************)
(* src/lib/http/request.js                                                  *)
(***************************************************************************)
\* hasHeader(headers, name), request.js 26-29
hasHeader(headers, name) ==
    \E i \in 1..Len(headers) :
        startsWith(LowerCase(headers[i]), LowerCase(name) \o <<":">>)

\* path.basename(filePath): what follows the last '/', trailing '/' left out
RECURSIVE basename(_)
basename(filePath) ==
    IF Len(filePath) > 1 /\ filePath[Len(filePath)] = "/"
    THEN basename(SubSeq(filePath, 1, Len(filePath) - 1))
    ELSE LET slashes == {i \in 1..Len(filePath) : filePath[i] = "/"}
         IN  IF slashes = {} \/ Len(filePath) = 1 THEN filePath
             ELSE SubSeq(filePath, (CHOOSE i \in slashes : \A j \in slashes : j <= i) + 1,
                         Len(filePath))

\* the loop of parseFileOptions over parts[1..], request.js 50-57
RECURSIVE FileOptions(_, _, _)
FileOptions(parts, i, found) ==
    IF i > Len(parts) THEN found
    ELSE LET opt == Trimmed(parts[i])
         IN  FileOptions(parts, i + 1,
                 IF startsWith(opt, <<"f", "i", "l", "e", "n", "a", "m", "e", "=">>)
                 THEN [found EXCEPT !.fileName = substringFrom(opt, 9)]
                 ELSE IF startsWith(opt, <<"t", "y", "p", "e", "=">>)
                 THEN [found EXCEPT !.mimeType = substringFrom(opt, 5)]
                 ELSE found)

\* parseFileOptions(value), request.js 38-60
parseFileOptions(value) ==
    LET parts == split(substringFrom(value, 1), <<";">>)
    IN  FileOptions(parts, 2,
            [filePath |-> parts[1], fileName |-> basename(parts[1]),
             mimeType |-> <<"a", "p", "p", "l", "i", "c", "a", "t", "i", "o", "n", "/", "o", "c", "t", "e", "t", "-", "s", "t", "r", "e", "a", "m">>])

\* the files fs.readFileSync finds, with their content
Disk == { [filePath |-> <<"/", "t", "/", "a", ".", "t", "x", "t">>, content |-> <<"D", "A", "T", "A">>] }

Exists(filePath) == \E f \in Disk : f.filePath = filePath

readFileSync(filePath) == (CHOOSE f \in Disk : f.filePath = filePath).content

\* the part of one form field, request.js 72-102; threw when the file cannot
\* be read
FieldPart(field, boundary) ==
    LET eqIndex == indexOf(field, <<"=">>)
        name == substring(field, 0, eqIndex)
        value == substringFrom(field, eqIndex + 1)
        file == parseFileOptions(value)
    IN  IF eqIndex = -1 THEN [threw |-> FALSE, bytes |-> << >>]
        ELSE IF startsWith(value, <<"@">>)
        THEN IF ~Exists(file.filePath) THEN [threw |-> TRUE, bytes |-> << >>]
             ELSE [threw |-> FALSE,
                   bytes |-> BufferFrom(<<"-", "-">> \o boundary \o NewLine
                             \o <<"C", "o", "n", "t", "e", "n", "t", "-", "D", "i", "s", "p", "o", "s", "i", "t", "i", "o", "n", ":", " ", "f", "o", "r", "m", "-", "d", "a", "t", "a", ";", " ", "n", "a", "m", "e", "=", "\"">> \o name
                             \o <<"\"", ";", " ", "f", "i", "l", "e", "n", "a", "m", "e", "=", "\"">> \o file.fileName \o <<"\"">> \o NewLine
                             \o <<"C", "o", "n", "t", "e", "n", "t", "-", "T", "y", "p", "e", ":", " ">> \o file.mimeType \o NewLine \o NewLine)
                             \o readFileSync(file.filePath) \o BufferFrom(NewLine)]
        ELSE [threw |-> FALSE,
              bytes |-> BufferFrom(<<"-", "-">> \o boundary \o NewLine
                        \o <<"C", "o", "n", "t", "e", "n", "t", "-", "D", "i", "s", "p", "o", "s", "i", "t", "i", "o", "n", ":", " ", "f", "o", "r", "m", "-", "d", "a", "t", "a", ";", " ", "n", "a", "m", "e", "=", "\"">> \o name \o <<"\"">>
                        \o NewLine \o NewLine
                        \o value \o NewLine)]

\* buildMultipartBody(formFields, boundary), request.js 68-109
RECURSIVE FieldParts(_, _)
FieldParts(formFields, boundary) ==
    IF Len(formFields) = 0 THEN [threw |-> FALSE, bytes |-> << >>]
    ELSE LET first == FieldPart(Head(formFields), boundary)
             rest == FieldParts(Tail(formFields), boundary)
         IN  IF first.threw \/ rest.threw THEN [threw |-> TRUE, bytes |-> << >>]
             ELSE [threw |-> FALSE, bytes |-> first.bytes \o rest.bytes]

buildMultipartBody(formFields, boundary) ==
    LET parts == FieldParts(formFields, boundary)
    IN  IF parts.threw THEN parts
        ELSE [threw |-> FALSE, bytes |-> parts.bytes
                         \o BufferFrom(<<"-", "-">> \o boundary \o <<"-", "-">> \o NewLine)]

\* header lines that leave out a header the caller gave before
RECURSIVE HeaderLines_Deduplicated(_)
HeaderLines_Deduplicated(headers) ==
    IF Len(headers) = 0 THEN << >>
    ELSE HeaderLines_Deduplicated(SubSeq(headers, 1, Len(headers) - 1))
         \o (IF \E i \in 1..(Len(headers) - 1) : headers[i] = headers[Len(headers)]
             THEN << >> ELSE headers[Len(headers)] \o NewLine)

\* the header lines of the caller, each with its line end, request.js 156-158
RECURSIVE HeaderLines(_)
HeaderLines(headers) ==
    IF Len(headers) = 0 THEN << >>
    ELSE Head(headers) \o NewLine \o HeaderLines(Tail(headers))

\* request.js 140-142
RequestLine(method, host, port, path, useProxy) ==
    IF useProxy
    THEN UpperCase(method) \o <<" ", "h", "t", "t", "p", ":", "/", "/">> \o host \o <<":">> \o Decimal(port) \o path
         \o <<" ", "H", "T", "T", "P", "/", "1", ".", "1">>
    ELSE UpperCase(method) \o <<" ">> \o path \o <<" ", "H", "T", "T", "P", "/", "1", ".", "1">>

\* request.js 166, 176: !hasHeader(headers, 'Content-Type')
AddsContentType(headers) == ~hasHeader(headers, <<"C", "o", "n", "t", "e", "n", "t", "-", "T", "y", "p", "e">>)

\* a buildRequest that takes the data for the body when there is any
UsesForm_UnlessData(form, data) == Len(form) > 0 /\ Len(data) = 0

\* request.js 161: form.length > 0
UsesForm(form, data) == Len(form) > 0

\* buildRequest(options), request.js 125-190; boundary is what generateBoundary
\* returned
buildRequest(o, useProxy) ==
    LET mandatory ==
            <<"H", "o", "s", "t", ":", " ">> \o o.host \o NewLine
            \o <<"C", "o", "n", "n", "e", "c", "t", "i", "o", "n", ":", " ", "c", "l", "o", "s", "e">> \o NewLine
            \o (IF Len(o.cookie) > 0 THEN <<"C", "o", "o", "k", "i", "e", ":", " ">> \o o.cookie \o NewLine ELSE << >>)
        headerSection ==
            RequestLine(o.method, o.host, o.port, o.path, useProxy) \o NewLine
            \o mandatory \o HeaderLines(o.headers)
        bodyBuffer == buildMultipartBody(o.form, o.boundary)
    IN  IF UsesForm(o.form, o.data)
        THEN IF bodyBuffer.threw THEN bodyBuffer
             ELSE [threw |-> FALSE,
                   bytes |-> BufferFrom(headerSection
                       \o (IF AddsContentType(o.headers)
                           THEN <<"C", "o", "n", "t", "e", "n", "t", "-", "T", "y", "p", "e", ":", " ", "m", "u", "l", "t", "i", "p", "a", "r", "t", "/", "f", "o", "r", "m", "-", "d", "a", "t", "a", ";", " ", "b", "o", "u", "n", "d", "a", "r", "y", "=">> \o o.boundary
                                \o NewLine
                           ELSE << >>)
                       \o <<"C", "o", "n", "t", "e", "n", "t", "-", "L", "e", "n", "g", "t", "h", ":", " ">> \o Decimal(Len(bodyBuffer.bytes)) \o NewLine
                       \o NewLine)
                       \o bodyBuffer.bytes]
        ELSE IF Len(o.data) > 0
        THEN [threw |-> FALSE,
              bytes |-> BufferFrom(headerSection
                  \o (IF AddsContentType(o.headers)
                      THEN <<"C", "o", "n", "t", "e", "n", "t", "-", "T", "y", "p", "e", ":", " ", "a", "p", "p", "l", "i", "c", "a", "t", "i", "o", "n", "/", "x", "-", "w", "w", "w", "-", "f", "o", "r", "m", "-", "u", "r", "l", "e", "n", "c", "o", "d", "e", "d">> \o NewLine
                      ELSE << >>)
                  \o <<"C", "o", "n", "t", "e", "n", "t", "-", "L", "e", "n", "g", "t", "h", ":", " ">> \o Decimal(byteLength(o.data)) \o NewLine
                  \o NewLine
                  \o o.data)]
        ELSE [threw |-> FALSE, bytes |-> BufferFrom(headerSection \o NewLine)]

\* a sendRequest that goes through any proxy object
useProxy_AnyProxy(via) == ~via.null

\* sendRequest, client.js 82: proxy && proxy.host && proxy.port
useProxy(via) == ~via.null /\ Len(via.host) > 0 /\ via.port # 0

(***************************************************************************)
(* One HTTP exchange.  The request objects and the raw responses are drawn  *)
(* in the initial state; the actions are the steps of sendRequest           *)
(* (client.js 67-123) and of the caller that parses the response            *)
(* (bin/jsurl.js 298-301).                                                  *)
(***************************************************************************)
Methods == {<<"g", "e", "t">>, <<"P", "O", "S", "T">>}

TargetHost == <<"h", ".", "i", "o">>

TargetPort == 80

TargetPath == <<"/", "a">>

Cookies == {<< >>, <<"k", "=", "v">>}

\* the caller's headers: none, one, two in an order, the same one twice, a
\* Content-Type in lower case, a Content-Length
HeaderLists ==
    { << >>,
      <<<<"X", "-", "A", ":", " ", "1">>>>,
      <<<<"X", "-", "B", ":", " ", "2">>, <<"X", "-", "A", ":", " ", "1">>>>,
      <<<<"X", "-", "A", ":", " ", "1">>, <<"X", "-", "A", ":", " ", "1">>>>,
      <<<<"c", "o", "n", "t", "e", "n", "t", "-", "t", "y", "p", "e", ":", " ", "t", "e", "x", "t", "/", "p", "l", "a", "i", "n">>>>,
      <<<<"C", "o", "n", "t", "e", "n", "t", "-", "L", "e", "n", "g", "t", "h", ":", " ", "3">>>> }

\* the data of a request: none, ASCII, and one with a character that takes
\* two bytes in UTF-8
DataValues == {<< >>, <<"a", "=", "b">>, <<"n", "=", "U+00E9">>}

\* the form fields: none, a literal field, file fields with and without
\* filename= and type=, a file that does not exist, a field without '=',
\* a literal field whose value takes two bytes in UTF-8
FormLists ==
    { << >>,
      <<<<"f", "=", "v">>>>,
      <<<<"f", "=", "U+00E9">>>>,
      <<<<"f", "=", "@", "/", "t", "/", "a", ".", "t", "x", "t", ";", "f", "i", "l", "e", "n", "a", "m", "e", "=", ".", ".", "/", "x", ".", "s", "h", ";", "t", "y", "p", "e", "=", "t", "e", "x", "t", "/", "x">>>>,
      <<<<"f", "=", "@", "/", "t", "/", "a", ".", "t", "x", "t">>>>,
      <<<<"g", "=", "1">>, <<"f", "=", "@", "/", "t", "/", "a", ".", "t", "x", "t", ";", "t", "y", "p", "e", "=", "t", "e", "x", "t", "/", "x">>>>,
      <<<<"f", "=", "@", "/", "t", "/", "a", ".", "t", "x", "t", ";", "f", "i", "l", "e", "n", "a", "m", "e", "=", "x", " ">>>>,
      <<<<"f", "=", "@", "/", "t", "/", "n", "o", "n", "e">>>>,
      <<<<"n", "o", "v", "a", "l", "u", "e">>>> }

\* requestObj.proxy: null, or the object parseProxy or a caller made
Proxies ==
    { [null |-> TRUE, host |-> << >>, port |-> 0],
      [null |-> FALSE, host |-> <<"p", ".", "i", "o">>, port |-> 3128],
      [null |-> FALSE, host |-> << >>, port |-> 3128],
      [null |-> FALSE, host |-> <<"p", ".", "i", "o">>, port |-> 0] }

\* what generateBoundary returns (request.js 16-18)
Boundaries == {<<"-", "-", "-", "-", "j", "s", "u", "r", "l", "0", "0">>}

RequestInputs ==
    { [kind |-> "request", method |-> m, host |-> TargetHost, port |-> TargetPort,
       path |-> TargetPath, data |-> d, form |-> f, headers |-> h, cookie |-> c,
       proxy |-> p, boundary |-> b] :
        m \in Methods, d \in DataValues, f \in FormLists, h \in HeaderLists,
        c \in Cookies, p \in Proxies, b \in Boundaries }

\* sendRequest, client.js 82-100: the request is built; an error of
\* buildRequest is thrown on
SendRequestBuild ==
    /\ hpc = "request"
    /\ LET built == buildRequest(requestObj, useProxy(requestObj.proxy))
       IN  /\ requestBytes' = built.bytes
           /\ hpc' = IF built.threw THEN "threw" ELSE "built"
    /\ UNCHANGED <<requestObj, connectTarget, rawResponse, parsedResponse, statusClasses>>
    /\ UNCHANGED <<codecVars, sessionVars, transportVars>>

\* sendRequest, client.js 85-86, 103-107: the connection is opened
SendRequestConnect ==
    /\ hpc = "built"
    /\ connectTarget' = IF useProxy(requestObj.proxy)
                        THEN [host |-> requestObj.proxy.host, port |-> requestObj.proxy.port]
                        ELSE [host |-> requestObj.host, port |-> requestObj.port]
    /\ hpc' = "connecting"
    /\ UNCHANGED <<requestObj, requestBytes, rawResponse, parsedResponse, statusClasses>>
    /\ UNCHANGED <<codecVars, sessionVars, transportVars>>

(***************************************************************************)
(* src/lib/http/response.js                                                 *)
(***************************************************************************)
\* the offset where the run of characters of `set` that starts at offset
\* `from` of s ends
RECURSIVE RunEnd(_, _, _)
RunEnd(s, from, set) ==
    IF from < Len(s) /\ s[from + 1] \in set THEN RunEnd(s, from + 1, set) ELSE from

DigitSet == {DigitChars[i] : i \in 1..10}

LineTerminators_None == {}

\* the characters '.' of a regular expression does not match
LineTerminators == {"\r", "\n"}

\* parseInt(digits) of a string of digits
RECURSIVE parseInt(_)
parseInt(digits) ==
    IF Len(digits) = 0 THEN 0
    ELSE parseInt(SubSeq(digits, 1, Len(digits) - 1)) * 10
         + (PositionIn(digits[Len(digits)], DigitChars) - 1)

\* statusLine.match(/^HTTP\/[\d.]+\s+(\d+)\s*(.*)$/), response.js 39.  The
\* classes that follow one another are disjoint, so each run is the longest
\* one; (.*) takes the rest, which must hold no line terminator.
StatusMatch(statusLine) ==
    LET versionEnd == RunEnd(statusLine, 5, DigitSet \cup {"."})
        spaceEnd == RunEnd(statusLine, versionEnd, WhiteSpace)
        codeEnd == RunEnd(statusLine, spaceEnd, DigitSet)
        textStart == RunEnd(statusLine, codeEnd, WhiteSpace)
        text == substringFrom(statusLine, textStart)
    IN  IF /\ startsWith(statusLine, <<"H", "T", "T", "P", "/">>)
           /\ versionEnd > 5
           /\ spaceEnd > versionEnd
           /\ codeEnd > spaceEnd
           /\ \A i \in 1..Len(text) : text[i] \notin LineTerminators
        THEN [matched |-> TRUE, code |-> substring(statusLine, spaceEnd, codeEnd),
              text |-> text]
        ELSE [matched |-> FALSE, code |-> << >>, text |-> << >>]

\* the lower-case name every object inherits an ordinary value under
\* (Object.prototype.constructor); the other inherited names have capital
\* letters, which no key has
PrototypeKeys == {<<"c", "o", "n", "s", "t", "r", "u", "c", "t", "o", "r">>}

\* the inherited value, which is no string
Inherited == <<"[inherited]">>

\* headers is a list of entries in the order the keys were first set: the key,
\* whether the value is an array, and the value or the values of the array
HasKey(headers, k) == \E i \in 1..Len(headers) : headers[i].key = k

KeyAt(headers, k) == CHOOSE i \in 1..Len(headers) : headers[i].key = k

\* if (headers[key]), response.js 64: an array, a string that is not empty,
\* or what the object inherits
Truthy(headers, k) ==
    IF HasKey(headers, k)
    THEN headers[KeyAt(headers, k)].isArray \/ Len(headers[KeyAt(headers, k)].values[1]) > 0
    ELSE k \in PrototypeKeys

\* headers[key] = v
SetKey(headers, k, isArray, values) ==
    IF HasKey(headers, k)
    THEN [headers EXCEPT ![KeyAt(headers, k)] =
              [key |-> k, isArray |-> isArray, values |-> values]]
    ELSE Append(headers, [key |-> k, isArray |-> isArray, values |-> values])

\* the callback of headerLines.forEach, response.js 57-74
HeaderLine(headers, line) ==
    LET colonIndex == indexOf(line, <<":">>)
        k == LowerCase(Trimmed(substring(line, 0, colonIndex)))
        value == Trimmed(substringFrom(line, colonIndex + 1))
    IN  IF colonIndex <= 0 THEN headers
        ELSE IF Truthy(headers, k)
        THEN IF HasKey(headers, k)
             THEN IF headers[KeyAt(headers, k)].isArray
                  THEN SetKey(headers, k, TRUE,
                              Append(headers[KeyAt(headers, k)].values, value))
                  ELSE SetKey(headers, k, TRUE,
                              <<headers[KeyAt(headers, k)].values[1], value>>)
             ELSE SetKey(headers, k, TRUE, <<Inherited, value>>)
        ELSE SetKey(headers, k, FALSE, <<value>>)

RECURSIVE HeaderMap(_, _)
HeaderMap(headers, headerLines) ==
    IF Len(headerLines) = 0 THEN headers
    ELSE HeaderMap(HeaderLine(headers, Head(headerLines)), Tail(headerLines))

\* the helper methods, response.js 87-90
isSuccess(statusCode) == statusCode >= 200 /\ statusCode < 300

isRedirect(statusCode) == statusCode >= 300 /\ statusCode < 400

isClientError(statusCode) == statusCode >= 400 /\ statusCode < 500

isServerError(statusCode) == statusCode >= 500

InvalidResponse(error, response) == [valid |-> FALSE, error |-> error, raw |-> response]

\* parseResponse(response), response.js 26-92
parseResponse(response) ==
    IF Len(response) = 0 \/ Len(Trimmed(response)) = 0
    THEN InvalidResponse("Empty response", response)
    ELSE LET statusMatch == StatusMatch(split(response, NewLine)[1])
             headerEndIndex == indexOf(response, NewLine \o NewLine)
             headerLines == Tail(split(substring(response, 0, headerEndIndex), NewLine))
         IN  IF ~statusMatch.matched
             THEN InvalidResponse("Invalid HTTP response format", response)
             ELSE [valid |-> TRUE,
                   statusCode |-> parseInt(statusMatch.code),
                   statusText |-> statusMatch.text,
                   headers |-> HeaderMap(<< >>, headerLines),
                   body |-> IF headerEndIndex > 0
                            THEN substringFrom(response, headerEndIndex + 4) ELSE << >>,
                   raw |-> response]

\* the status lines of the responses: codes on both sides of every class
\* boundary, and lines the pattern does not match
StatusCodes == {99, 199, 200, 299, 300, 399, 400, 499, 500, 599, 600, 1000}

StatusLines ==
    { <<"H", "T", "T", "P", "/", "1", ".", "1", " ">> \o Decimal(c) \o <<" ", "T">> : c \in StatusCodes }
    \cup { <<"H", "T", "T", "P", "/", "1", ".", "1", " ", "2", "0", "0", " ", "O", "K">>, <<"H", "T", "T", "P", "/", "1", ".", "0", " ", "4", "0", "4", " ", "N", "o", "t", " ", "F", "o", "u", "n", "d">>, <<"H", "T", "T", "P", "/", "2", " ", "2", "0", "4">>,
           <<"H", "T", "T", "P", "/", "1", ".", "1", " ", "2", "0", "0", "O", "K">>, <<"H", "T", "T", "P", "/", "1", ".", "1", " ", " ", "3", "0", "1", " ", " ", "a", ":", "b", " ">>, <<"H", "T", "T", "P", "/", "1", ".", "1", " ", "2", "0", "0", "\n">>,
           <<"H", "T", "P", "/", "1", ".", "1", " ", "2", "0", "0", " ", "O", "K">>, <<"H", "T", "T", "P", "/", "1", ".", "1", " ", "O", "K">>, <<"H", "T", "T", "P", "/", " ", "2", "0", "0", " ", "O", "K">>, <<"H", "T", "T", "P", "/", "1", ".", "1", "2", "0", "0", " ", "O", "K">>,
           <<" ", "H", "T", "T", "P", "/", "1", ".", "1", " ", "2", "0", "0", " ", "O", "K">>, <<"H", "T", "T", "P", "/", "1", ".", "1", " ", "2", "0", "0", " ", "O", "K", "\n", "X">> }

\* the header lines of the responses
HeaderBlocks ==
    { << >>,
      <<<<"A", ":", " ", "1">>>>,
      <<<<"A", ":", " ", "1">>, <<"B", ":", " ", "x">>, <<"a", ":", " ", "2">>>>,
      <<<<"A", ":", " ", "1">>, <<"A", ":", " ", "2">>, <<"A", ":", " ", "3">>>>,
      <<<<"L", ":", " ", "h", "t", "t", "p", ":", "/", "/", "x", ":", "8">>>>,
      <<<<" ", "A", " ", ":", " ", "1", " ">>, <<"n", "o", "v", "a", "l", "u", "e">>, <<":", " ", "x">>>>,
      <<<<"A", ":">>>>,
      <<<<"A", ":">>, <<"A", ":", " ", "2">>>>,
      <<<<"A", ":", " ", "2">>, <<"A", ":">>>>,
      <<<<"A", ":">>, <<"A", ":">>, <<"A", ":", " ", "3">>>>,
      <<<<"C", "o", "n", "s", "t", "r", "u", "c", "t", "o", "r", ":", " ", "1">>>> }

Bodies == {<< >>, <<"h", "i">>}

\* the lines with "\r\n" between them
RECURSIVE JoinLines(_)
JoinLines(lines) ==
    IF Len(lines) = 0 THEN << >>
    ELSE IF Len(lines) = 1 THEN lines[1]
    ELSE lines[1] \o NewLine \o JoinLines(Tail(lines))

\* raw responses: a status line, header lines, a blank line and a body; the
\* same cut before the blank line; the empty string and white space
ResponseInputs ==
    { JoinLines(<<s>> \o h) \o NewLine \o NewLine \o b :
        s \in StatusLines, h \in HeaderBlocks, b \in Bodies }
    \cup { JoinLines(<<s>> \o h) : s \in StatusLines, h \in {<< >>, <<<<"A", ":", " ", "1">>>>} }
    \cup { << >>, <<" ", "\r", "\n", " ">> }

\* parseResponse(response), as bin/jsurl.js 301 calls it
ParseResponse ==
    /\ hpc = "response"
    /\ parsedResponse' = parseResponse(rawResponse)
    /\ hpc' = "parsed"
    /\ UNCHANGED <<requestObj, requestBytes, connectTarget, rawResponse, statusClasses>>
    /\ UNCHANGED <<codecVars, sessionVars, transportVars>>

\* the caller asks the four helper methods of a valid response
StatusClass ==
    /\ hpc = "parsed"
    /\ parsedResponse.valid
    /\ statusClasses' = [isSuccess |-> isSuccess(parsedResponse.statusCode),
                         isRedirect |-> isRedirect(parsedResponse.statusCode),
                         isClientError |-> isClientError(parsedResponse.statusCode),
                         isServerError |-> isServerError(parsedResponse.statusCode)]
    /\ hpc' = "classified"
    /\ UNCHANGED <<requestObj, requestBytes, connectTarget, rawResponse, parsedResponse>>
    /\ UNCHANGED <<codecVars, sessionVars, transportVars>>

\* a request object is given to sendRequest, or a raw response has arrived
InitHttp ==
    /\ \/ /\ requestObj \in RequestInputs
          /\ rawResponse = << >>
          /\ hpc = "request"
       \/ /\ requestObj = NoRequest
          /\ rawResponse \in ResponseInputs
          /\ hpc = "response"
    /\ requestBytes = << >>
    /\ connectTarget = [host |-> << >>, port |-> 0]
    /\ parsedResponse = [valid |-> FALSE]
    /\ statusClasses = << >>
    /\ SessionNew
    /\ CodecIdle
    /\ TransportNew

NextHttp ==
    \/ SendRequestBuild
    \/ SendRequestConnect
    \/ ParseResponse
    \/ StatusClass

SpecHttp == InitHttp /\ [][NextHttp]_vars

(***************************************************************************)
(* Properties of the HTTP request, checked under SpecHttp.                  *)
(***************************************************************************)
\* buildRequest has returned
Built == requestObj.kind = "request" /\ hpc \in {"built", "connecting"}

\* the lines of the built request up to its first empty line
RECURSIVE UpToEmpty(_)
UpToEmpty(lines) ==
    IF Len(lines) = 0 \/ Len(Head(lines)) = 0 THEN << >>
    ELSE <<Head(lines)>> \o UpToEmpty(Tail(lines))

HeadLines == UpToEmpty(split(requestBytes, NewLine))

\* what follows the first empty line of the built request
BodyBytes == substringFrom(requestBytes, indexOf(requestBytes, NewLine \o NewLine) + 4)

\* the header line has the name, whatever the case of its letters
Named(line, name) == startsWith(LowerCase(line), LowerCase(name) \o <<":">>)

\* how many of the lines have the name
RECURSIVE CountNamed(_, _)
CountNamed(lines, name) ==
    IF Len(lines) = 0 THEN 0
    ELSE (IF Named(Head(lines), name) THEN 1 ELSE 0) + CountNamed(Tail(lines), name)

\* the request has a body
HasBody == Len(requestObj.form) > 0 \/ Len(requestObj.data) > 0

\* C21: the built request is its request line, Host, Connection: close, a
\* Cookie header exactly when the cookie is not empty, each header of the
\* caller as given and in the caller's order, then only Content-Type and
\* Content-Length lines, then the empty line.
C21_HeaderOrder ==
    Built =>
        LET first == split(requestBytes, NewLine)[1]
            n == 3 + (IF Len(requestObj.cookie) > 0 THEN 1 ELSE 0) + Len(requestObj.headers)
            given == first \o NewLine
                     \o <<"H", "o", "s", "t", ":", " ">> \o requestObj.host \o NewLine
                     \o <<"C", "o", "n", "n", "e", "c", "t", "i", "o", "n", ":", " ", "c", "l", "o", "s", "e", "\r", "\n">>
                     \o (IF Len(requestObj.cookie) > 0
                         THEN <<"C", "o", "o", "k", "i", "e", ":", " ">> \o requestObj.cookie \o NewLine ELSE << >>)
                     \o JoinAll([i \in 1..Len(requestObj.headers) |->
                                    requestObj.headers[i] \o NewLine])
        IN  /\ startsWith(first, UpperCase(requestObj.method) \o <<" ">>)
            /\ startsWith(requestBytes, given)
            /\ indexOf(requestBytes, NewLine \o NewLine) >= 0
            /\ Len(HeadLines) >= n
            /\ \A i \in (n + 1)..Len(HeadLines) :
                  \/ startsWith(HeadLines[i], <<"C", "o", "n", "t", "e", "n", "t", "-", "T", "y", "p", "e", ":", " ">>)
                  \/ startsWith(HeadLines[i], <<"C", "o", "n", "t", "e", "n", "t", "-", "L", "e", "n", "g", "t", "h", ":", " ">>)

\* a request with a cookie, the same header twice and a body was built
C21_Witness ==
    /\ Built
    /\ Len(requestObj.cookie) > 0
    /\ Len(requestObj.headers) = 2
    /\ requestObj.headers[1] = requestObj.headers[2]
    /\ Len(requestObj.data) > 0
    /\ Len(HeadLines) = 8

\* C22: a request with a body has one Content-Type line and one
\* Content-Length line more than the caller gave when the caller gave none of
\* that name, and no more than the caller gave otherwise.
C22_AutoEntityHeaders ==
    (Built /\ HasBody) =>
        /\ CountNamed(HeadLines, <<"C", "o", "n", "t", "e", "n", "t", "-", "T", "y", "p", "e">>) =
              IF CountNamed(requestObj.headers, <<"C", "o", "n", "t", "e", "n", "t", "-", "T", "y", "p", "e">>) = 0 THEN 1
              ELSE CountNamed(requestObj.headers, <<"C", "o", "n", "t", "e", "n", "t", "-", "T", "y", "p", "e">>)
        /\ CountNamed(HeadLines, <<"C", "o", "n", "t", "e", "n", "t", "-", "L", "e", "n", "g", "t", "h">>) =
              IF CountNamed(requestObj.headers, <<"C", "o", "n", "t", "e", "n", "t", "-", "L", "e", "n", "g", "t", "h">>) = 0 THEN 1
              ELSE CountNamed(requestObj.headers, <<"C", "o", "n", "t", "e", "n", "t", "-", "L", "e", "n", "g", "t", "h">>)

\* C23: with form fields the body is the multipart body whatever the data;
\* without form fields and with data the body is the data, in bytes; with neither there
\* is no body and no Content-Type or Content-Length line but the caller's.
C23_BodySelection ==
    Built =>
        IF Len(requestObj.form) > 0
        THEN BodyBytes = buildMultipartBody(requestObj.form, requestObj.boundary).bytes
        ELSE IF Len(requestObj.data) > 0
        THEN BodyBytes = BufferFrom(requestObj.data)
        ELSE /\ BodyBytes = << >>
             /\ CountNamed(HeadLines, <<"C", "o", "n", "t", "e", "n", "t", "-", "T", "y", "p", "e">>) =
                    CountNamed(requestObj.headers, <<"C", "o", "n", "t", "e", "n", "t", "-", "T", "y", "p", "e">>)
             /\ CountNamed(HeadLines, <<"C", "o", "n", "t", "e", "n", "t", "-", "L", "e", "n", "g", "t", "h">>) =
                    CountNamed(requestObj.headers, <<"C", "o", "n", "t", "e", "n", "t", "-", "L", "e", "n", "g", "t", "h">>)

\* a request with form fields and data was built
C23_Witness ==
    /\ Built
    /\ Len(requestObj.form) > 0
    /\ Len(requestObj.data) > 0
    /\ Len(BodyBytes) > Len(requestObj.data)

\* the proxy has a host and a port
ProxyComplete ==
    /\ ~requestObj.proxy.null
    /\ requestObj.proxy.host # << >>
    /\ requestObj.proxy.port # 0

\* C24: the connection goes to the proxy exactly when the request line is in
\* absolute-URI form; without a proxy, or with one that lacks its host or its
\* port, it goes to the target and the request line holds the path alone; the
\* Host header names the target.
C24_ProxyRouting ==
    (requestObj.kind = "request" /\ hpc = "connecting") =>
        LET first == split(requestBytes, NewLine)[1]
            absolute == UpperCase(requestObj.method) \o <<" ", "h", "t", "t", "p", ":", "/", "/">> \o requestObj.host
                        \o <<":">> \o Decimal(requestObj.port) \o requestObj.path
                        \o <<" ", "H", "T", "T", "P", "/", "1", ".", "1">>
            relative == UpperCase(requestObj.method) \o <<" ">> \o requestObj.path
                        \o <<" ", "H", "T", "T", "P", "/", "1", ".", "1">>
            toProxy == connectTarget = [host |-> requestObj.proxy.host,
                                        port |-> requestObj.proxy.port]
            toTarget == connectTarget = [host |-> requestObj.host, port |-> requestObj.port]
        IN  /\ toProxy <=> first = absolute
            /\ toProxy \/ toTarget
            /\ ~ProxyComplete => toTarget /\ first = relative
            /\ ProxyComplete => toProxy
            /\ split(requestBytes, NewLine)[2] = <<"H", "o", "s", "t", ":", " ">> \o requestObj.host

\* a request went through a proxy
C24_Witness ==
    /\ requestObj.kind = "request"
    /\ hpc = "connecting"
    /\ ProxyComplete
    /\ connectTarget.host = requestObj.proxy.host
    /\ connectTarget.port = requestObj.proxy.port


\* ---- multipart parts (request.js 38-109) ----

\* the value an option "prefix..." of a file field gives, the last one when it
\* is given more than once, or otherwise when no option has that prefix
GivenOption(options, prefix, otherwise) ==
    LET given == {i \in 2..Len(options) : startsWith(options[i], prefix)}
    IN  IF given = {} THEN otherwise
        ELSE substringFrom(options[CHOOSE i \in given : \A j \in given : j <= i], Len(prefix))

\* the part the field name=value stands for: a file part for name=@path with
\* its options taken as they are written, a literal part otherwise
PartOf(field, boundary) ==
    LET eqIndex == indexOf(field, <<"=">>)
        name == substring(field, 0, eqIndex)
        value == substringFrom(field, eqIndex + 1)
        options == split(substringFrom(value, 1), <<";">>)
    IN  IF eqIndex = -1 THEN << >>
        ELSE IF startsWith(value, <<"@">>)
        THEN <<"-", "-">> \o boundary \o NewLine
             \o <<"C", "o", "n", "t", "e", "n", "t", "-", "D", "i", "s", "p", "o", "s", "i", "t", "i", "o", "n", ":", " ", "f", "o", "r", "m", "-", "d", "a", "t", "a", ";", " ", "n", "a", "m", "e", "=", "\"">> \o name
             \o <<"\"", ";", " ", "f", "i", "l", "e", "n", "a", "m", "e", "=", "\"">> \o GivenOption(options, <<"f", "i", "l", "e", "n", "a", "m", "e", "=">>, basename(options[1]))
             \o <<"\"">> \o NewLine
             \o <<"C", "o", "n", "t", "e", "n", "t", "-", "T", "y", "p", "e", ":", " ">> \o GivenOption(options, <<"t", "y", "p", "e", "=">>, <<"a", "p", "p", "l", "i", "c", "a", "t", "i", "o", "n", "/", "o", "c", "t", "e", "t", "-", "s", "t", "r", "e", "a", "m">>)
             \o NewLine \o NewLine \o readFileSync(options[1]) \o NewLine
        ELSE <<"-", "-">> \o boundary \o NewLine
             \o <<"C", "o", "n", "t", "e", "n", "t", "-", "D", "i", "s", "p", "o", "s", "i", "t", "i", "o", "n", ":", " ", "f", "o", "r", "m", "-", "d", "a", "t", "a", ";", " ", "n", "a", "m", "e", "=", "\"">> \o name \o <<"\"">>
             \o NewLine \o NewLine \o value \o NewLine

RECURSIVE PartsOf(_, _)
PartsOf(formFields, boundary) ==
    IF Len(formFields) = 0 THEN << >>
    ELSE PartOf(Head(formFields), boundary) \o PartsOf(Tail(formFields), boundary)

\* C25: the body of a request with form fields is, in field order, a file part
\* for each field name=@path;filename=X;type=Y, with X and Y as written, the
\* base name of path without filename= and application/octet-stream without
\* type=, and a literal part for each other field name=value, then the closing
\* boundary.
C25_MultipartParts ==
    (Built /\ Len(requestObj.form) > 0) =>
        BodyBytes = BufferFrom(PartsOf(requestObj.form, requestObj.boundary)
                               \o <<"-", "-">> \o requestObj.boundary \o <<"-", "-">> \o NewLine)


\* ---- parsed responses (response.js 26-92) ----

Parsed == hpc \in {"parsed", "classified"}

\* the first line of the raw response
FirstLine == split(rawResponse, NewLine)[1]

AllIn(s, from, to, set) == \A i \in (from + 1)..to : s[i] \in set

\* the line is HTTP/<version> <code> <text>: "HTTP/", a version of digits and
\* dots s[5..a), white space s[a..b), the code, all the digits s[b..c), and
\* after white space s[c..d) a text without line break; the white space
\* before the text, and the text, may be empty
StatusLineParts(s) ==
    { p \in [a : 6..Len(s), b : 7..Len(s), c : 8..Len(s), d : 8..Len(s)] :
        /\ p.a < p.b /\ p.b < p.c /\ p.c <= p.d
        /\ SubSeq(s, 1, 5) = <<"H", "T", "T", "P", "/">>
        /\ AllIn(s, 5, p.a, {"0", "1", "2", "3", "4", "5", "6", "7", "8", "9", "."})
        /\ AllIn(s, p.a, p.b, {" ", "\t", "\r", "\n"})
        /\ AllIn(s, p.b, p.c, {"0", "1", "2", "3", "4", "5", "6", "7", "8", "9"})
        /\ (p.a + 1 <= Len(s) => s[p.a + 1] \notin {"0", "1", "2", "3", "4", "5", "6", "7", "8", "9", "."})
        /\ (p.c + 1 <= Len(s) => s[p.c + 1] \notin {"0", "1", "2", "3", "4", "5", "6", "7", "8", "9"})
        /\ AllIn(s, p.c, p.d, {" ", "\t", "\r", "\n"})
        /\ (p.d + 1 <= Len(s) => s[p.d + 1] \notin {" ", "\t", "\r", "\n"})
        /\ \A i \in (p.d + 1)..Len(s) : s[i] \notin {"\r", "\n"} }

\* C26: parseResponse returns for every string: for an empty or blank
\* response, or one whose first line is no status line, only valid = false, an
\* error text and the raw input; for every other one valid = true with the
\* number and the text of the first line.
C26_ParseTotal ==
    Parsed =>
        IF (\A i \in 1..Len(rawResponse) : rawResponse[i] \in {" ", "\t", "\r", "\n"})
           \/ StatusLineParts(FirstLine) = {}
        THEN /\ DOMAIN parsedResponse = {"valid", "error", "raw"}
             /\ ~parsedResponse.valid
             /\ parsedResponse.error # ""
             /\ parsedResponse.raw = rawResponse
        ELSE /\ parsedResponse.valid
             /\ \E p \in StatusLineParts(FirstLine) :
                    /\ parsedResponse.statusCode = parseInt(SubSeq(FirstLine, p.b + 1, p.c))
                    /\ parsedResponse.statusText = SubSeq(FirstLine, p.d + 1, Len(FirstLine))

\* a response that begins like a status line and is found invalid
C26_Witness ==
    /\ hpc = "parsed"
    /\ Len(rawResponse) > 5
    /\ SubSeq(rawResponse, 1, 5) = <<"H", "T", "T", "P", "/">>
    /\ ~parsedResponse.valid
    /\ parsedResponse.raw = rawResponse


\* the lines of the header block: after the first line, up to the blank line
BlockLines ==
    Tail(split(SubSeq(rawResponse, 1, indexOf(rawResponse, NewLine \o NewLine)), NewLine))

\* the header lines of the block: those with a name before the first colon
NameOf(line) == LowerCase(Trimmed(SubSeq(line, 1, indexOf(line, <<":">>))))

ValueOf(line) == Trimmed(SubSeq(line, indexOf(line, <<":">>) + 2, Len(line)))

RECURSIVE ValuesOf(_, _)
ValuesOf(lines, name) ==
    IF Len(lines) = 0 THEN << >>
    ELSE (IF indexOf(Head(lines), <<":">>) > 0 /\ NameOf(Head(lines)) = name
          THEN <<ValueOf(Head(lines))>> ELSE << >>)
         \o ValuesOf(Tail(lines), name)

HeaderNames == {NameOf(BlockLines[i]) : i \in {j \in 1..Len(BlockLines) : indexOf(BlockLines[j], <<":">>) > 0}}

\* C27: the header map of a valid response with a header block holds, for
\* every header name in lower case, the trimmed value of its line when one
\* line has the name and the list of the trimmed values of its lines in order
\* when more have it, empty values included, each line split at its first
\* colon; it holds no other name.
C27_HeaderMap ==
    (Parsed /\ parsedResponse.valid /\ indexOf(rawResponse, NewLine \o NewLine) >= 0) =>
        /\ {parsedResponse.headers[i].key : i \in 1..Len(parsedResponse.headers)} = HeaderNames
        /\ \A i \in 1..Len(parsedResponse.headers) :
              LET entry == parsedResponse.headers[i]
                  all == ValuesOf(BlockLines, entry.key)
              IN  /\ entry.values = all
                  /\ entry.isArray <=> Len(all) >= 2


\* C28: of a valid parsed response with status code c, isSuccess() is true
\* exactly for 200 <= c <= 299, isRedirect() for 300 <= c <= 399,
\* isClientError() for 400 <= c <= 499 and isServerError() for
\* 500 <= c <= 599, and at most one of the four is true.
C28_StatusClasses ==
    hpc = "classified" =>
        LET c == parsedResponse.statusCode
        IN  /\ statusClasses.isSuccess <=> (200 <= c /\ c <= 299)
            /\ statusClasses.isRedirect <=> (300 <= c /\ c <= 399)
            /\ statusClasses.isClientError <=> (400 <= c /\ c <= 499)
            /\ statusClasses.isServerError <=> (500 <= c /\ c <= 599)
            /\ Cardinality({n \in DOMAIN statusClasses : statusClasses[n]}) <= 1


(***************************************************************************)
(* Properties of the inbound stream and of the session's life, checked      *)
(* under SpecOwner and Spec.                                                *)
(***************************************************************************)
\* what an Open session whose socket is open does with the inbound stream
\* when one read delivers all of it
OneRead ==
    _onData([buffer |-> << >>, connected |-> TRUE, log |-> << >>, writeEnded |-> FALSE],
            Inbound, <<18, 52, 86, 120>>).log

\* what a log shows of the frames: the events that report frames with their
\* payloads, and the frames written with their opcodes and payloads unmasked
RECURSIVE Shown(_)
Shown(entries) ==
    IF Len(entries) = 0 THEN << >>
    ELSE LET e == Head(entries)
         IN  (IF e.t = "emit" /\ e.what \in {"message", "ping", "pong", "close"} /\ e.type # "none"
              THEN <<[event |-> e.what, data |-> e.data, type |-> e.type]>>
              ELSE IF IsFrameWrite(e)
              THEN <<[event |-> "frame written", data |-> parseFrame(e.data).payload,
                      type |-> parseFrame(e.data).opcode]>>
              ELSE << >>)
             \o Shown(Tail(entries))

\* C31: whatever reads delivered the bytes received after the handshake
\* response, the session that no owner has called has emitted the events, with
\* their payloads, and written the frames that one read of the same bytes
\* gives.
C31_ChunkingIndependence ==
    (phase = "resolved" /\ sockState = "open" /\ calls = 0) =>
        Shown(log) = Shown(OneRead)


IsStep(e, what) == e = Step(what)

IsReject(e) == IsStep(e, "reject")

IsTunnelOk(e) == IsStep(e, "tunnel ok")

IsHandshakeOk(e) == IsStep(e, "handshake ok")

\* the place of the first rejection of connect() in the log; 0 when there is
\* none
Rejection == Index("step", "reject")

\* no promise has settled twice: connect() has rejected at most once, each
\* phase has succeeded at most once, and after a rejection no phase has
\* succeeded and the session has not opened
SettledOnce ==
    /\ Count(log, IsReject) <= 1
    /\ Count(log, IsTunnelOk) <= 1
    /\ Count(log, IsHandshakeOk) <= 1
    /\ Count(log, IsOpenEvent) <= 1
    /\ Rejection > 0 =>
        /\ phase = "rejected"
        /\ \A i \in (Rejection + 1)..Len(log) :
              ~IsTunnelOk(log[i]) /\ ~IsHandshakeOk(log[i]) /\ ~IsOpenEvent(log[i])
        /\ Index("emit", "open") = 0

\* a timer is cleared once its phase has seen the complete header block; a
\* timer has fired only on a phase that had not seen it, which is rejected,
\* has lost its listener and has not succeeded
TimersCancelled ==
    /\ tunnelEstablished => tunnelTimer = "cleared"
    /\ handshakeComplete => handshakeTimer = "cleared"
    /\ tunnelTimer = "fired" =>
        /\ ~tunnelEstablished
        /\ phase = "rejected"
        /\ "tunnel" \notin listeners
        /\ Index("step", "tunnel ok") = 0
    /\ handshakeTimer = "fired" =>
        /\ ~handshakeComplete
        /\ phase = "rejected"
        /\ "handshake" \notin listeners
        /\ Index("step", "handshake ok") = 0

\* C32: once a phase has seen its complete header block its timer is cleared
\* and never fires; once a timer has fired, the phase is rejected and nothing
\* that arrives later resolves it.  Each phase settles, by its header block
\* or by its timer, and no promise settles twice.
C32_TimersCancelled ==
    /\ []TimersCancelled
    /\ []SettledOnce
    /\ (phase = "tunnel" ~> phase \in {"tunnel resolved", "rejected"})
    /\ (phase = "handshake" ~> phase \in {"handshake resolved", "rejected"})

\* the tunnel succeeded, the handshake timer fired, and the server's response
\* arrived afterwards
C32_Witness ==
    /\ tunnelTimer = "cleared"
    /\ handshakeTimer = "fired"
    /\ peer.next = "frames"
    /\ wire = << >>
    /\ phase = "rejected"


\* the socket has closed while connect() was in the tunnel or the handshake
\* phase
ClosedInPhase == sockState = "destroyed" /\ phase \in {"tunnel", "handshake"}

\* the 'close' event the socket's close raised
IsSocketCloseEvent(e) == IsCloseEvent(e) /\ e.type = "none"

\* C33: when the socket closes or fails while connect() is in the tunnel or
\* the handshake phase, a 'close' event is raised, connect() rejects in the
\* end, and the session is not connected and emits no 'open' from then on.
C33_CloseBeforeOpen ==
    /\ [](ClosedInPhase => Count(log, IsSocketCloseEvent) > 0)
    /\ [](\A i \in 1..Len(log) :
            (IsSocketCloseEvent(log[i]) /\ ~OpenedAt(i)) =>
                /\ ~connected
                /\ phase # "resolved"
                /\ \A j \in (i + 1)..Len(log) : ~IsOpenEvent(log[j]))
    /\ (ClosedInPhase ~> phase = "rejected")

\* the server closed the connection during the handshake and connect() has
\* rejected
C33_Witness ==
    /\ sockState = "destroyed"
    /\ phase = "rejected"
    /\ handshakeTimer = "fired"
    /\ Count(log, IsSocketCloseEvent) = 1
    /\ Index("emit", "error") = 0


\* an event that tells the caller of a frame, or an error
IsNotification(e) ==
    /\ e.t = "emit"
    /\ \/ e.what \in {"message", "ping", "pong", "close"} /\ e.type # "none"
       \/ e.what = "error"

\* C34: every complete frame an Open session has received, whatever its
\* opcode, has been told to the caller by an event or an error: the session
\* has emitted at least one of them for each frame it took off its buffer.
C34_ViolationsSurface ==
    (phase = "resolved" /\ sockState = "open" /\ Leftover = << >>) =>
        Count(log, IsNotification) >= Len(FramesOf(Inbound))


\* an event that reports a received frame
IsFrameEvent(e) ==
    e.t = "emit" /\ e.what \in {"message", "ping", "pong", "close"} /\ e.type # "none"

\* C35: 'open' is emitted before every 'message', 'ping' and 'pong' event and
\* before every 'close' event of a received CLOSE frame.
C35_OpenFirst ==
    \A i \in 1..Len(log) : IsFrameEvent(log[i]) => OpenedAt(i)

\* log entry e shows the session closing: close() was called or ran for a
\* CLOSE frame (it ends the socket), or the socket closed
IsClosing(e) == IsCloseCall(e) \/ IsCloseEvent(e) \/ IsStep(e, "socket.end()")

\* C36: once close() has run on the session or the socket has closed, the
\* session is not connected and emits no 'open' afterwards.
C36_NoReopening ==
    /\ \A i \in 1..Len(log) :
          IsClosing(log[i]) => \A j \in (i + 1)..Len(log) : ~IsOpenEvent(log[j])
    /\ (\E i \in 1..Len(log) : IsClosing(log[i])) => ~connected

\* the 'close' event of a received CLOSE frame
IsCloseFrameEvent(e) == IsCloseEvent(e) /\ e.type # "none"

\* C37: after the 'close' event of a received CLOSE frame the session emits
\* no 'message', 'ping' or 'pong' event and writes no PONG.
C37_StopsAtClose ==
    \A i \in 1..Len(log) :
        IsCloseFrameEvent(log[i]) =>
            \A j \in (i + 1)..Len(log) :
                /\ ~(log[j].t = "emit" /\ log[j].what \in {"message", "ping", "pong"})
                /\ ~IsPongWrite(log[j])

\* C38: after socket.end() the session writes nothing to its socket: every
\* write comes before it, so that a CLOSE frame written is the last frame.
C38_NoWriteAfterEnd ==
    \A i \in 1..Len(log) :
        IsStep(log[i], "socket.end()") =>
            \A j \in (i + 1)..Len(log) : log[j].t \notin {"write", "write after end"}

\* C39: the session emits 'close' at most once.
C39_CloseOnce == Count(log, IsCloseEvent) <= 1


\* the last line of the head of the built request
LastHeadLine == HeadLines[Len(HeadLines)]

\* C40: the Content-Length line buildRequest adds to a request with a body,
\* the last line of the head, gives the number of bytes that follow the blank
\* line, for a multipart body and for data, whose characters may take more
\* than one byte; a request without body ends with the blank line.
C40_ContentLengthExact ==
    Built =>
        IF HasBody
        THEN /\ startsWith(LastHeadLine, <<"C", "o", "n", "t", "e", "n", "t", "-", "L", "e", "n", "g", "t", "h", ":", " ">>)
             /\ parseInt(SubSeq(LastHeadLine, 17, Len(LastHeadLine))) = Len(BodyBytes)
        ELSE /\ BodyBytes = << >>
             /\ Len(requestBytes) >= 4
             /\ SubSeq(requestBytes, Len(requestBytes) - 3, Len(requestBytes)) = NewLine \o NewLine

\* a request was built whose data holds a character of two bytes
C40_Witness ==
    /\ Built
    /\ Len(requestObj.form) = 0
    /\ requestObj.data = <<"n", "=", "U+00E9">>
    /\ LastHeadLine = <<"C", "o", "n", "t", "e", "n", "t", "-", "L", "e", "n", "g", "t", "h", ":", " ", "4">>
    /\ BodyBytes = <<"n", "=", "0xC3", "0xA9">>

=============================================================================
